---------------------------- MODULE Spec2Model ----------------------------
(***************************************************************************)
(* PDF-Redactor: the burn-in redaction pipelines                           *)
(*   redactPdfBytes / redactPdfBytesWithText   (src/src/redaction.js,      *)
(*                                              src/unnamed/part_010)      *)
(*   redactPdfBytesSecureOcr                   (src/src/secureExport.js)   *)
(*   buildRasterOcrPdf                         (src/unnamed/part_011)      *)
(* and the zone resolvers they use, as state machines.  One step of a run  *)
(* is the code between two awaits; the collaborators (PDF.js, pdf-lib,     *)
(* tesseract.js, fetch) answer nondeterministically.                       *)
(*                                                                         *)
(* Lengths are exact integers.  A raster coordinate of pipeline f is kept  *)
(* in 1/Unit(f) pixels, a page coordinate of src/src/lib/templates.js and  *)
(* src/phi_redactor_static/app.js in twips (1/20 pt), so that 28.35 pt,    *)
(* 2.25 and 2.5 px/pt and 72/2.54 pt/cm are all whole numbers.             *)
(***************************************************************************)
EXTENDS Integers, Sequences, FiniteSets, TLC

\* ------------------------------------------------------------------ bounds
\* Pages of an input document.
MaxPages == 2
\* Page heights tried by the zone resolvers: ZoneHStep, 2*ZoneHStep, .. MaxDimK*ZoneHStep.
MaxDimK == 13

\* ------------------------------------------------------------ arithmetic
Min(a, b) == IF a <= b THEN a ELSE b
Max(a, b) == IF a >= b THEN a ELSE b
Abs(a) == IF a >= 0 THEN a ELSE 0 - a

\* Math.round(n/d) for d > 0: floor(n/d + 1/2).
Round(n, d) == (2 * n + d) \div (2 * d)
\* Math.ceil(n/d) for d > 0.
Ceil(n, d) == 0 - ((0 - n) \div d)

RECURSIVE SumSeq(_)
SumSeq(s) == IF s = <<>> THEN 0 ELSE Head(s) + SumSeq(Tail(s))

\* ------------------------------------------------------------------ bytes
\* A byte is written as the character it encodes.
needle == <<"%", "P", "D", "F", "-">>
Digits == {"0", "1", "4", "7"}

\* String.prototype.toLowerCase on one character.
LowerChar(c) ==
  CASE c = "H" -> "h"
    [] c = "T" -> "t"
    [] c = "M" -> "m"
    [] c = "L" -> "l"
    [] c = "E" -> "e"
    [] c = "A" -> "a"
    [] c = "D" -> "d"
    [] c = "P" -> "p"
    [] c = "F" -> "f"
    [] OTHER -> c
toLowerCase(s) == [i \in 1..Len(s) |-> LowerChar(s[i])]

\* bytes.slice(from, to), 0-based, end exclusive, clipped to the length.
Slice(s, from, to) ==
  LET e == Min(to, Len(s)) IN
  IF from >= e THEN <<>> ELSE [i \in 1..(e - from) |-> s[from + i]]

\* Whether sub occurs at 0-based offset i of s.
MatchAt(s, sub, i) ==
  /\ i + Len(sub) <= Len(s)
  /\ \A j \in 1..Len(sub) : s[i + j] = sub[j]

\* String.prototype.includes
includes(s, sub) == \E i \in 0..Len(s) : MatchAt(s, sub, i)

HtmlMarkers ==
  { <<"<", "!", "d", "o", "c", "t", "y", "p", "e", " ", "h", "t", "m", "l">>,
    <<"<", "h", "t", "m", "l">>,
    <<"<", "h", "e", "a", "d">> }

\* The length of the head that is searched for an HTML marker.
HeadLen == 64
\* The default scan window, 16 * 1024 * 1024 bytes.
DefaultMaxScanBytes == 16777216
\* The shortest input that is scanned at all.
MinPdfLen == 5

\* The first offset i <= scanLen - needle.length at which the needle is found, or -1.
HeaderAt(bytes, scanLen) ==
  LET hits == { i \in 0..(scanLen - Len(needle)) : MatchAt(bytes, needle, i) } IN
  IF hits = {} THEN -1 ELSE CHOOSE i \in hits : \A k \in hits : i <= k

\* /^%PDF-\d\.\d/ on the first 12 characters of out.
VersionOk(out) ==
  LET v == Slice(out, 0, Min(12, Len(out))) IN
  /\ Len(v) >= 8
  /\ MatchAt(v, needle, 0)
  /\ v[6] \in Digits
  /\ v[7] = "."
  /\ v[8] \in Digits

\* An argument is [given |-> whether bytes were passed at all, bytes |-> them].
Bytes(b) == [given |-> TRUE, bytes |-> b]
NoBytes == [given |-> FALSE, bytes |-> <<>>]
Thrown(msg) == [ok |-> FALSE, err |-> msg, out |-> <<>>]
Returned(out) == [ok |-> TRUE, err |-> "", out |-> out]

normalizePdfBytes_NoVersionCheck(arg, maxScanBytes) ==
  IF ~arg.given \/ Len(arg.bytes) < MinPdfLen THEN Thrown("empty or too small")
  ELSE
    LET bytes == arg.bytes
        headAscii == toLowerCase(Slice(bytes, 0, Min(HeadLen, Len(bytes))))
        scanLen == Min(maxScanBytes, Len(bytes))
        headerAt == HeaderAt(bytes, scanLen)
    IN
    IF \E m \in HtmlMarkers : includes(headAscii, m) THEN Thrown("looks like HTML")
    ELSE IF headerAt = -1 THEN Thrown("missing %PDF header")
    ELSE Returned(IF headerAt = 0 THEN bytes ELSE Slice(bytes, headerAt, Len(bytes)))

\* normalizePdfBytes of redaction.js (and of part_010, where redactPdfBytesWithText lives).
normalizePdfBytes(arg, maxScanBytes) ==
  IF ~arg.given \/ Len(arg.bytes) < MinPdfLen THEN Thrown("empty or too small")
  ELSE
    LET bytes == arg.bytes
        headAscii == toLowerCase(Slice(bytes, 0, Min(HeadLen, Len(bytes))))
        scanLen == Min(maxScanBytes, Len(bytes))
        headerAt == HeaderAt(bytes, scanLen)
        out == IF headerAt = 0 THEN bytes ELSE Slice(bytes, headerAt, Len(bytes))
    IN
    IF \E m \in HtmlMarkers : includes(headAscii, m) THEN Thrown("looks like HTML")
    ELSE IF headerAt = -1 THEN Thrown("missing %PDF header")
    ELSE IF ~VersionOk(out) THEN Thrown("not a valid PDF header")
    ELSE Returned(out)

\* The scan window of buildRasterOcrPdf's normalizePdfBytes, 2 * 1024 * 1024 bytes.
RasterMaxScanBytes == 2097152

\* normalizePdfBytes of part_011: no HTML test, no version test.
normalizePdfBytesRaster(arg) ==
  IF ~arg.given \/ Len(arg.bytes) < MinPdfLen THEN Thrown("empty or too small")
  ELSE
    LET bytes == arg.bytes
        at == HeaderAt(bytes, Min(Len(bytes), RasterMaxScanBytes))
    IN
    IF at = -1 THEN Thrown("No %PDF header found")
    ELSE Returned(IF at = 0 THEN bytes ELSE Slice(bytes, at, Len(bytes)))

\* ------------------------------------------------------------ input bytes
Rep(c, n) == [i \in 1..n |-> c]
Html == <<"<", "h", "t", "m", "l">>
HtmlUpper == <<"<", "H", "T", "M", "L">>
Head_ == <<"<", "h", "e", "a", "d">>
Pdf14 == needle \o <<"1", ".", "4", "b">>
Pdf17 == needle \o <<"1", ".", "7", "c">>

\* What may precede the header: nothing, junk, a cut-off marker, an HTML marker
\* inside, across and beyond the first 64 bytes.
Prefixes ==
  { <<>>, <<"x">>, <<"%", "P", "D">>, Html, HtmlUpper, Head_,
    Rep("x", HeadLen - 2) \o Html, Rep("x", HeadLen) \o Html }

\* What may stand where the header should: a good header, a second header after
\* it, a bad version before a good header, cut-off headers, nothing.
Bodies ==
  { Pdf14, Pdf14 \o Pdf17, needle \o <<"a", ".", "4">> \o Pdf14,
    needle \o <<"1">>, needle \o <<"1", "4", "4">>, needle \o <<"1", ".", "x">>,
    <<"%", "P", "D", "F">>, <<"x", "x", "x", "x", "x", "x">>, <<>> }

InputArgs == { Bytes(p \o b) : p \in Prefixes, b \in Bodies } \cup { NoBytes }

\* --------------------------------------------------------------- geometry
Rect(x, y, w, h) == [x |-> x, y |-> y, w |-> w, h |-> h]
PtSize(w, h) == [given |-> TRUE, width |-> w, height |-> h]
\* pageSizes[i] of an index the array does not have.
NoPtSize == [given |-> FALSE, width |-> 0, height |-> 0]

\* RedactionMode of redaction.js and the modes of secureExport.js and app.js.
SURGERY_CENTER == "surgery_center"
NO_CHARGE == "no_charge"
\* RedactionMode of src/src/lib/templates.js.
EPIC_HEADER_FOOTER == "epic_header_footer"
SURGERY_TOP_BAND == "surgery_top_band"

\* TEMPLATE of redaction.js, in thousandths of the rendered page height.
page1TopFrac == 410
otherHeaderFrac == 22
footerFrac == 36
FracDen == 1000

\* Math.max(min, Math.min(max, n))
clamp(n, min, max) == Max(min, Min(max, n))

getEpicHeaderFooterRects(pageIndex, canvasW, canvasH) ==
  LET topH == IF pageIndex = 0
              THEN Round(canvasH * page1TopFrac, FracDen)
              ELSE Round(canvasH * otherHeaderFrac, FracDen)
      footH == Round(canvasH * footerFrac, FracDen)
  IN << Rect(0, 0, canvasW, topH), Rect(0, canvasH - footH, canvasW, footH) >>

\* 1 inch = 72 pt = 2.54 cm: a length of c cm on a page h pt high is the
\* fraction (c * 7200) / (h * 254) of the page height.
PtPerInch100 == 7200
CmPerInch100 == 254

\* The zone resolver of the burn-in pipeline, in raster pixels, origin top-left.
computeRedactionRects(mode, pageIndex, canvasW, canvasH, pageSizePt, cfg) ==
  LET sizePt == IF pageSizePt.given THEN pageSizePt ELSE PtSize(canvasW, canvasH)
      topPx == Round(canvasH * cfg.surgeryTopCm * PtPerInch100, sizePt.height * CmPerInch100)
      footH == Round(canvasH * footerFrac, FracDen)
      rects ==
        IF mode = NO_CHARGE THEN getEpicHeaderFooterRects(pageIndex, canvasW, canvasH)
        ELSE IF mode = SURGERY_CENTER
          THEN << Rect(0, 0, canvasW, topPx) >>
                 \o (IF cfg.alsoRedactFooter
                     THEN << Rect(0, canvasH - footH, canvasW, footH) >> ELSE <<>>)
        ELSE <<>>
  IN IF cfg.applyAllPages = FALSE /\ pageIndex # 0 THEN <<>> ELSE rects

\* ---- src/src/lib/templates.js: page points, origin bottom-left, in twips.
Twips == 20
\* CM_TO_POINTS = 28.35 pt
CM_TO_POINTS == 567
\* The page-1 block, 612 pt by 300 pt.
Page1BlockW == 12240
Page1BlockH == 6000
\* The surgery band of lib/templates.js and app.js, 4 cm.
SurgeryBandCm == 4

rectsEpicHeaderFooter(pageIndex, pageW, pageH) ==
  LET width == Min(Page1BlockW, pageW)
      height == Min(Page1BlockH, pageH)
      bandH == 1 * CM_TO_POINTS
      headerH == Min(bandH, pageH)
      footerH == Min(bandH, pageH)
  IN (IF pageIndex = 0 THEN << Rect(0, pageH - height, width, height) >> ELSE <<>>)
       \o << Rect(0, pageH - headerH, pageW, headerH), Rect(0, 0, pageW, footerH) >>

rectsSurgeryTopBand(pageW, pageH) ==
  LET bandH == SurgeryBandCm * CM_TO_POINTS
      h == Min(bandH, pageH)
  IN << Rect(0, pageH - h, pageW, h) >>

getRedactionRects(mode, pageIndex, pageW, pageH) ==
  IF mode = SURGERY_TOP_BAND THEN rectsSurgeryTopBand(pageW, pageH)
  ELSE rectsEpicHeaderFooter(pageIndex, pageW, pageH)

\* ---- src/phi_redactor_static/app.js: viewport points, origin top-left, in twips.
\* NO_CHARGE_TEMPLATE.repeatFromPage
repeatFromPage == 1

computeRects(mode, pageIndex, pageWidthPt, pageHeightPt) ==
  IF mode = SURGERY_CENTER
  THEN << Rect(0, 0, pageWidthPt, SurgeryBandCm * CM_TO_POINTS) >>
  ELSE
    LET hp == 1 * CM_TO_POINTS IN
    (IF pageIndex = 0
     THEN << Rect(0, 0, Min(Page1BlockW, pageWidthPt), Page1BlockH) >> ELSE <<>>)
      \o (IF pageIndex + 1 >= repeatFromPage
          THEN << Rect(0, 0, pageWidthPt, hp), Rect(0, pageHeightPt - hp, pageWidthPt, hp) >>
          ELSE <<>>)

\* 0 <= x, 0 <= y, x+w <= W, y+h <= H
Contained(r, W, H) == r.x >= 0 /\ r.y >= 0 /\ r.x + r.w <= W /\ r.y + r.h <= H

\* ------------------------------------------------------------------ pages
\* A page of the input: its MediaBox in points and its /Rotate entry.
Page(w, h, rot) == [w |-> w, h |-> h, rot |-> rot]
Rotations == {0, 90, 180, 270}
\* US Letter, 612 pt by 792 pt.
LetterW == 612
LetterH == 792
PageKinds == { Page(LetterW, LetterH, r) : r \in Rotations }

RECURSIVE SeqsUpTo(_, _)
\* The sequences over S of length 1..n.
SeqsUpTo(S, n) ==
  IF n = 0 THEN {}
  ELSE LET shorter == SeqsUpTo(S, n - 1) IN
       { <<x>> : x \in S } \cup shorter \cup { Append(q, x) : q \in shorter, x \in S }

Docs == SeqsUpTo(PageKinds, MaxPages)

\* pdfjsPage.getViewport({ scale: 1 }): the page as the viewer sees it, in points.
Viewport(page) ==
  IF page.rot \in {90, 270} THEN [width |-> page.h, height |-> page.w]
  ELSE [width |-> page.w, height |-> page.h]

\* PDFPage.getSize() of pdf-lib: the MediaBox, whatever the rotation.
getSize(page) == PtSize(page.w, page.h)

\* --------------------------------------------------------------- rasters
\* A canvas: the page it was rendered from, its size in pixels, and the
\* rectangles filled black on it, in 1/unit pixels.  A pixel shows the page's
\* own content unless a fill covers it.
Canvas(page, w, h, unit) == [page |-> page, w |-> w, h |-> h, unit |-> unit, fills |-> {}]
NoCanvas == Canvas(0, 0, 0, 1)

\* ctx.fillRect: the part of the rectangle on the raster turns black.
fillRect(canvas, r) ==
  LET W == canvas.w * canvas.unit
      H == canvas.h * canvas.unit
      x0 == clamp(r.x, 0, W)
      y0 == clamp(r.y, 0, H)
      x1 == clamp(r.x + r.w, 0, W)
      y1 == clamp(r.y + r.h, 0, H)
  IN IF x1 > x0 /\ y1 > y0
     THEN [canvas EXCEPT !.fills = @ \cup { Rect(x0, y0, x1 - x0, y1 - y0) }]
     ELSE canvas

RECURSIVE FillAll(_, _)
FillAll(canvas, rects) ==
  IF rects = <<>> THEN canvas ELSE FillAll(fillRect(canvas, Head(rects)), Tail(rects))

\* applyRedactionsToCanvas that paints nothing.
applyRedactionsToCanvas_Skip(canvas, rects) == canvas

\* The zones handed to fillRect as they are.
fillRectCalls_Unclamped(canvas, rects) == rects

\* The calls of ctx.fillRect applyRedactionsToCanvas makes: each zone clamped to
\* the raster, those left without width or height skipped.
fillRectCalls(canvas, rects) ==
  LET clamped(r) ==
        LET x == clamp(r.x, 0, canvas.w)
            y == clamp(r.y, 0, canvas.h)
        IN Rect(x, y, clamp(r.w, 0, canvas.w - x), clamp(r.h, 0, canvas.h - y))
      todo == [k \in 1..Len(rects) |-> clamped(rects[k])]
  IN SelectSeq(todo, LAMBDA r : r.w > 0 /\ r.h > 0)

\* applyRedactionsToCanvas of redaction.js: each zone clamped to the raster, then filled.
applyRedactionsToCanvas(canvas, rects) == FillAll(canvas, fillRectCalls(canvas, rects))

\* The part of zone r that lies on the raster is black on the canvas.
Covered(canvas, r) ==
  LET W == canvas.w * canvas.unit
      H == canvas.h * canvas.unit
      x0 == clamp(r.x, 0, W)
      y0 == clamp(r.y, 0, H)
      x1 == clamp(r.x + r.w, 0, W)
      y1 == clamp(r.y + r.h, 0, H)
  IN (x1 > x0 /\ y1 > y0) =>
       \E f \in canvas.fills :
         f.x <= x0 /\ f.y <= y0 /\ x1 <= f.x + f.w /\ y1 <= f.y + f.h

\* ------------------------------------------------------------------- text
Whitespace == {" ", "\n", "\t", "\r"}

RECURSIVE TrimLeft(_)
TrimLeft(s) == IF s # <<>> /\ Head(s) \in Whitespace THEN TrimLeft(Tail(s)) ELSE s
RECURSIVE TrimRight(_)
TrimRight(s) ==
  IF s # <<>> /\ s[Len(s)] \in Whitespace THEN TrimRight(SubSeq(s, 1, Len(s) - 1)) ELSE s
\* String.prototype.trim
trim(s) == TrimRight(TrimLeft(s))

\* What recognition may answer for a page: nothing, blanks, or words.
OcrTexts == { <<>>, <<" ">>, <<"a">>, <<"\t", " ", "a", "b", "\n">> }

\* addInvisibleTextLayer's CHUNK
CHUNK == 6000

\* Chunking that writes the first run only.
Chunks_FirstOnly(text, n) ==
  IF Len(text) = 0 THEN <<>> ELSE <<SubSeq(text, 1, Min(n, Len(text)))>>

RECURSIVE Chunks(_, _)
\* The runs text.slice(offset, offset + n) for offset = 0, n, 2n, .. below text.length.
Chunks(text, n) ==
  IF Len(text) = 0 THEN <<>>
  ELSE <<SubSeq(text, 1, Min(n, Len(text)))>>
         \o Chunks(SubSeq(text, Min(n, Len(text)) + 1, Len(text)), n)

\* The runs addInvisibleTextLayer draws.
addInvisibleTextLayer(text) == Chunks(text, CHUNK)

\* `--- Page ${k} ---`
PageHdr(k) ==
  CASE k = 1 -> "--- Page 1 ---"
    [] k = 2 -> "--- Page 2 ---"
    [] k = 3 -> "--- Page 3 ---"
    [] k = 4 -> "--- Page 4 ---"
    [] OTHER -> "--- Page n ---"
PageHdrs == { PageHdr(k) : k \in 1..4 }

\* A join that keeps the first part only.
Join_First(parts, sep) == IF parts = <<>> THEN <<>> ELSE parts[1]

RECURSIVE Join(_, _)
\* Array.prototype.join
Join(parts, sep) ==
  IF parts = <<>> THEN <<>>
  ELSE IF Len(parts) = 1 THEN parts[1]
  ELSE parts[1] \o sep \o Join(Tail(parts), sep)

\* ------------------------------------------------------------------ state
VARIABLES
  fn,                \* the entry point that runs
  mode,              \* the redaction mode (or template key) it was called with
  opts,              \* the options it was called with ("unset": not passed)
  env,               \* what the run finds around it: the OCR assets, pdf-lib's page list
  pc,                \* where the run stands: the await it is suspended at
  inputBytes,        \* the parameter inputBytes / pdfBytes, and the local it becomes
  loadCalls,         \* the data of every pdfjsLib.getDocument call so far
  doc,               \* the opened document: its pages (pdf.numPages = Len(doc))
  pageSizes,         \* getPdfLibPageSizes' answer
  worker,            \* the local worker / tess: "null" or "worker"
  workersCreated,    \* OCR workers createWorker has handed out
  workersTerminated, \* OCR workers whose terminate() has completed
  ocrEnabled,        \* buildRasterOcrPdf's ocrEnabled
  outCreated,        \* whether PDFDocument.create() has run
  outPages,          \* the pages of outPdf
  i,                 \* the page loop's index, 0-based
  renders,           \* pages rendered so far
  canvas,            \* the canvas of the page in hand
  rects,             \* the zones resolved for the page in hand
  ocrText,           \* redactPdfBytesSecureOcr's ocrText of the page in hand
  ocrTotalChars,     \* the searchability counter
  texts,             \* redactPdfBytesWithText's texts / buildRasterOcrPdf's allText parts
  warnings,          \* buildRasterOcrPdf's warnings
  ocrLog,            \* every recognize call so far: the page and the raster it was given
  result,            \* "none", "returned" or "threw"
  error,             \* the message thrown
  gptText,           \* the text returned beside the bytes
  zin,               \* a function's call: the function and its arguments
  zout,              \* what it returned
  zfirst,            \* what the same call returned the first time
  store,             \* localStorage: the saved override of each template key
  template           \* redactPdfArrayBuffer's resolved template

vars == << fn, mode, opts, env, pc, inputBytes, loadCalls, doc, pageSizes, worker,
           workersCreated, workersTerminated, ocrEnabled, outCreated, outPages, i,
           renders, canvas, rects, ocrText, ocrTotalChars, texts, warnings, ocrLog,
           result, error, gptText, zin, zout, zfirst, store, template >>

\* The arguments of a call and its surroundings.
argVars == << fn, mode, opts, env >>

\* The state of a run.
runVars == << pc, inputBytes, loadCalls, doc, pageSizes, worker, workersCreated,
              workersTerminated, ocrEnabled, outCreated, outPages, i, renders, canvas,
              rects, ocrText, ocrTotalChars, texts, warnings, ocrLog, result, error,
              gptText >>

BurnFns == {"redactPdfBytes", "redactPdfBytesWithText"}
SecureFn == "redactPdfBytesSecureOcr"
RasterFn == "buildRasterOcrPdf"

\* Render scales, in quarters of a pixel per point: 2.0, 2.25 and 2.5.
BurnScaleQ == 8
SecureScaleQ == 9
RasterScaleQ == 10
ScaleDen == 4
\* surgeryTopCm's default.
DefaultSurgeryTopCm == 4

\* convertAnyToArtifacts, which passes its own cfg (renderScale 2.5) on to
\* redactPdfBytesWithText.
ConvertFn == "convertAnyToArtifacts"
ConvertScaleQ == 10

\* An option whose passed value is ignored.
Opt_DefaultOnly(v, default) == default

\* An option as passed: "unset", "true" or "false".
Opt(v, default) == IF v = "unset" THEN default ELSE v = "true"

\* const cfg = { ...defaults, ...opts } of redactPdfBytes and redactPdfBytesWithText.
\* renderScale is 2.0 unless the caller passes one, as convertAnyToArtifacts does.
BurnCfg ==
  [ applyAllPages |-> Opt(opts.applyAllPages, mode = NO_CHARGE),
    includeOcr |-> Opt(opts.includeOcr, TRUE),
    renderScaleQ |-> IF zin.resolver = ConvertFn THEN ConvertScaleQ ELSE BurnScaleQ,
    surgeryTopCm |-> DefaultSurgeryTopCm,
    alsoRedactFooter |-> TRUE ]

\* const cfg = { ...defaults, ...opts } of redactPdfBytesSecureOcr.
SecureCfg ==
  [ onlyFirstPage |-> Opt(opts.onlyFirstPage, TRUE),
    renderScaleQ |-> SecureScaleQ,
    surgeryTopCmTenths |-> 10 * DefaultSurgeryTopCm,
    ocr |-> Opt(opts.includeOcr, TRUE) ]

InitRun ==
  /\ pc = "start"
  /\ loadCalls = <<>>
  /\ doc = <<>>
  /\ pageSizes = <<>>
  /\ worker = "null"
  /\ workersCreated = 0
  /\ workersTerminated = 0
  /\ ocrEnabled = TRUE
  /\ outCreated = FALSE
  /\ outPages = <<>>
  /\ i = 0
  /\ renders = 0
  /\ canvas = NoCanvas
  /\ rects = <<>>
  /\ ocrText = <<>>
  /\ ocrTotalChars = 0
  /\ texts = <<>>
  /\ warnings = <<>>
  /\ ocrLog = <<>>
  /\ result = "none"
  /\ error = ""
  /\ gptText = <<>>

NoOpts == [applyAllPages |-> "unset", includeOcr |-> "unset", onlyFirstPage |-> "unset"]

\* The calls the model makes: each entry point with the modes and options it takes.
Calls ==
  { [fn |-> f, arg |-> a, mode |-> m,
     opts |-> [NoOpts EXCEPT !.applyAllPages = ap, !.includeOcr = oc]] :
      f \in BurnFns, a \in InputArgs, m \in {SURGERY_CENTER, NO_CHARGE},
      ap \in {"unset", "true", "false"}, oc \in {"unset", "false"} }
  \cup
  { [fn |-> SecureFn, arg |-> a, mode |-> m,
     opts |-> [NoOpts EXCEPT !.onlyFirstPage = fp, !.includeOcr = oc]] :
      a \in { Bytes(Pdf14) }, m \in {SURGERY_CENTER, NO_CHARGE},
      fp \in {"unset", "false"}, oc \in {"unset", "false"} }
  \cup
  { [fn |-> RasterFn, arg |-> a, mode |-> m, opts |-> NoOpts] :
      a \in InputArgs, m \in {EPIC_HEADER_FOOTER, SURGERY_TOP_BAND} }

\* No zone resolver call is being looked at.
NoZoneCall == [resolver |-> "none"]

\* A resolver's answer, and the absence of one before the call.
ZonePending == [done |-> FALSE, rects |-> <<>>]

ZoneAnswer(rs) == [done |-> TRUE, rects |-> rs]

\* ---- src/src/templates.js, templateOverrides.js: measurements in 1/100 inch.
\* A template: its mode and, for the band modes, the inches of each band.
Template(m, first, other, bottom) ==
  [mode |-> m, firstPage |-> first, otherPages |-> other, bottomAllPages |-> bottom]

\* resolveTemplate's null.
NoTemplate == Template("none", 0, 0, 0)

TemplateKeys == {"notes", "surgery_notes", "asante_notes", "asante_blue"}
BandKeys == {"surgery_notes", "asante_notes", "asante_blue"}

TEMPLATES ==
  [k \in TemplateKeys |->
     IF k = "notes" THEN Template("normalized_rects", 0, 0, 0)
     ELSE IF k = "surgery_notes" THEN Template("top_band_inches", 175, 60, 0)
     ELSE Template("bands_inches", 375, 40, 40)]

\* What localStorage holds for a key: nothing, or the measurements the tuner saved.
NoOverride == [set |-> FALSE, firstPage |-> 0, otherPages |-> 0, bottomAllPages |-> 0]
Override(first, other, bottom) ==
  [set |-> TRUE, firstPage |-> first, otherPages |-> other, bottomAllPages |-> bottom]

\* No override is saved for any template key.
NoStore == [k \in BandKeys |-> NoOverride]

loadTemplateOverride(st, templateKey) ==
  IF templateKey \in DOMAIN st THEN st[templateKey] ELSE NoOverride

\* resolveTemplate: the base template, its band measurements replaced by the
\* saved ones when an override is stored (a top_band_inches template merges
\* ov.topBandInches, a bands_inches template ov.bandsInches).
resolveTemplate(st, templateKey) ==
  IF templateKey \notin TemplateKeys THEN NoTemplate
  ELSE LET base == TEMPLATES[templateKey]
           ov == loadTemplateOverride(st, templateKey)
       IN IF ~ov.set THEN base
          ELSE IF base.mode = "top_band_inches"
            THEN [base EXCEPT !.firstPage = ov.firstPage, !.otherPages = ov.otherPages]
          ELSE IF base.mode = "bands_inches"
            THEN [base EXCEPT !.firstPage = ov.firstPage, !.otherPages = ov.otherPages,
                              !.bottomAllPages = ov.bottomAllPages]
          ELSE base

\* No function call is being looked at, nothing is stored.
NoSideState ==
  /\ zin = NoZoneCall
  /\ zout = ZonePending
  /\ zfirst = ZonePending
  /\ store = NoStore
  /\ template = NoTemplate

\* The state of a run before its first step; no document, no worker, no output.
Idle ==
  /\ NoSideState
  /\ InitRun

\* The surroundings: whether an OCR language file answers the HEAD request, and
\* whether pdf-lib lists every page PDF.js opens or one page less.
Env(assets, pdfLib) == [assets |-> assets, pdfLib |-> pdfLib]
DefaultEnv == Env("reachable", "agrees")

Init ==
  /\ \E c \in Calls :
       /\ fn = c.fn /\ inputBytes = c.arg /\ mode = c.mode /\ opts = c.opts
       /\ env \in IF c.fn \in BurnFns
                  THEN { Env(a, "agrees") : a \in {"reachable", "missing"} }
                  ELSE { DefaultEnv }
  /\ Idle

\* The run ends with an exception: every later statement is skipped.
Throw(msg) ==
  /\ pc' = "threw"
  /\ result' = "threw"
  /\ error' = msg

\* What no step of a pipeline changes: the call's arguments and surroundings,
\* and the variables of the specifications of single functions.
callVars == << argVars, zin, zout, zfirst, store, template >>

\* ------------------------------------- redactPdfBytes, redactPdfBytesWithText
\* inputBytes = normalizePdfBytes(inputBytes)
B_Normalize ==
  /\ fn \in BurnFns /\ pc = "start"
  /\ LET r == normalizePdfBytes(inputBytes, DefaultMaxScanBytes) IN
     IF r.ok
     THEN /\ inputBytes' = Bytes(r.out)
          /\ pc' = "load"
          /\ UNCHANGED << result, error >>
     ELSE /\ Throw(r.err)
          /\ UNCHANGED inputBytes
  /\ UNCHANGED << callVars, loadCalls, doc, pageSizes, worker, workersCreated,
                  workersTerminated, ocrEnabled, outCreated, outPages, i, renders,
                  canvas, rects, ocrText, ocrTotalChars, texts, warnings, ocrLog, gptText >>

\* pdf = await pdfjsLib.getDocument({ data: inputBytes }).promise
\* PDF.js opens the document, or rejects: with "No PDF header found" (which only
\* redactPdfBytes catches) or with anything else.
B_Load ==
  /\ fn \in BurnFns /\ pc = "load"
  /\ loadCalls' = Append(loadCalls, inputBytes.bytes)
  /\ \/ \E d \in Docs :
          /\ doc' = d
          /\ pc' = "sizes"
          /\ UNCHANGED << result, error >>
     \/ /\ fn = "redactPdfBytes"
        /\ pc' = "retry"
        /\ UNCHANGED << doc, result, error >>
     \/ /\ fn = "redactPdfBytesWithText"
        /\ Throw("No PDF header found")
        /\ UNCHANGED doc
     \/ /\ Throw("PDF.js rejected the document")
        /\ UNCHANGED doc
  /\ UNCHANGED << callVars, inputBytes, pageSizes, worker, workersCreated,
                  workersTerminated, ocrEnabled, outCreated, outPages, i, renders,
                  canvas, rects, ocrText, ocrTotalChars, texts, warnings, ocrLog, gptText >>

\* The catch branch of redactPdfBytes: normalize again, scanning the whole
\* input, and open the result; a second rejection is rethrown with a hex peek.
B_Retry ==
  /\ fn = "redactPdfBytes" /\ pc = "retry"
  /\ LET r == normalizePdfBytes(inputBytes,
                                Min(DefaultMaxScanBytes, Len(inputBytes.bytes)))
     IN
     IF ~r.ok
     THEN /\ Throw(r.err)
          /\ UNCHANGED << inputBytes, loadCalls, doc >>
     ELSE /\ loadCalls' = Append(loadCalls, r.out)
          /\ \/ \E d \in Docs :
                  /\ doc' = d
                  /\ inputBytes' = Bytes(r.out)
                  /\ pc' = "sizes"
                  /\ UNCHANGED << result, error >>
             \/ /\ Throw("PDF.js could not parse this file as a PDF")
                /\ UNCHANGED << inputBytes, doc >>
  /\ UNCHANGED << callVars, pageSizes, worker, workersCreated,
                  workersTerminated, ocrEnabled, outCreated, outPages, i, renders,
                  canvas, rects, ocrText, ocrTotalChars, texts, warnings, ocrLog, gptText >>

\* getPdfLibPageSizes: the size of every page pdf-lib lists.
getPdfLibPageSizes(d, pdfLib) ==
  LET n == IF pdfLib = "agrees" THEN Len(d) ELSE Max(0, Len(d) - 1)
  IN [k \in 1..n |-> getSize(d[k])]

\* let worker = null; if (cfg.includeOcr){ ... }: with OCR off the run goes
\* straight to the output document.
AfterSizes_AlwaysWorker(includeOcr) == "assets"

AfterSizes(includeOcr) == IF includeOcr THEN "assets" ELSE "create"

\* pageSizes = await getPdfLibPageSizes(inputBytes): pdf-lib parses the same
\* bytes and answers each page's MediaBox size, or rejects.
B_Sizes ==
  /\ fn \in BurnFns /\ pc = "sizes"
  /\ \/ /\ pageSizes' = getPdfLibPageSizes(doc, env.pdfLib)
        /\ pc' = AfterSizes(BurnCfg.includeOcr)
        /\ UNCHANGED << result, error >>
     \/ /\ Throw("pdf-lib could not load the document")
        /\ UNCHANGED pageSizes
  /\ UNCHANGED << callVars, inputBytes, loadCalls, doc, worker, workersCreated,
                  workersTerminated, ocrEnabled, outCreated, outPages, i, renders,
                  canvas, rects, ocrText, ocrTotalChars, texts, warnings, ocrLog, gptText >>

AssetsError == "OCR is enabled, but the English OCR model file was not found"

\* assertOcrAssetsPresent returns a URL if one of the two candidate files
\* answers the HEAD request with ok, and throws if none does.
assertOcrAssetsPresent_AlwaysOk(assets) == TRUE

assertOcrAssetsPresent(assets) == assets = "reachable"

\* ocrModelUrl = await assertOcrAssetsPresent()
B_Assets ==
  /\ fn \in BurnFns /\ pc = "assets"
  /\ IF assertOcrAssetsPresent(env.assets)
     THEN /\ pc' = "createWorker"
          /\ UNCHANGED << result, error >>
     ELSE Throw(AssetsError)
  /\ UNCHANGED << callVars, inputBytes, loadCalls, doc, pageSizes, worker, workersCreated,
                  workersTerminated, ocrEnabled, outCreated, outPages, i, renders,
                  canvas, rects, ocrText, ocrTotalChars, texts, warnings, ocrLog, gptText >>

\* worker = await createWorker({...})
B_CreateWorker ==
  /\ fn \in BurnFns /\ pc = "createWorker"
  /\ \/ /\ worker' = "worker"
        /\ workersCreated' = workersCreated + 1
        /\ pc' = "initWorker"
        /\ UNCHANGED << result, error >>
     \/ /\ Throw("createWorker rejected")
        /\ UNCHANGED << worker, workersCreated >>
  /\ UNCHANGED << callVars, inputBytes, loadCalls, doc, pageSizes,
                  workersTerminated, ocrEnabled, outCreated, outPages, i, renders,
                  canvas, rects, ocrText, ocrTotalChars, texts, warnings, ocrLog, gptText >>

\* await worker.loadLanguage('eng'); await worker.initialize('eng')
B_InitWorker ==
  /\ fn \in BurnFns /\ pc = "initWorker"
  /\ \/ /\ pc' = "create"
        /\ UNCHANGED << result, error >>
     \/ Throw("loadLanguage/initialize rejected")
  /\ UNCHANGED << callVars, inputBytes, loadCalls, doc, pageSizes, worker, workersCreated,
                  workersTerminated, ocrEnabled, outCreated, outPages, i, renders,
                  canvas, rects, ocrText, ocrTotalChars, texts, warnings, ocrLog, gptText >>

\* outPdf = await PDFDocument.create(); font = ...; the counters; i = 0
B_Create ==
  /\ fn \in BurnFns /\ pc = "create"
  /\ outCreated' = TRUE
  /\ ocrTotalChars' = 0
  /\ texts' = <<>>
  /\ i' = 0
  /\ pc' = "page"
  /\ UNCHANGED << callVars, inputBytes, loadCalls, doc, pageSizes, worker, workersCreated,
                  workersTerminated, ocrEnabled, outPages, renders,
                  canvas, rects, ocrText, warnings, ocrLog, result, error, gptText >>

\* renderPageToCanvas: a canvas of floor(viewport * scale) pixels.
BurnCanvas(pageNumber, page, scaleQ) ==
  Canvas(pageNumber, (Viewport(page).width * scaleQ) \div ScaleDen,
         (Viewport(page).height * scaleQ) \div ScaleDen, 1)

\* pdfjsPage = await pdf.getPage(i + 1); { canvas, ctx } = await renderPageToCanvas(...)
B_Render ==
  /\ fn \in BurnFns /\ pc = "page" /\ i < Len(doc)
  /\ \/ /\ canvas' = BurnCanvas(i + 1, doc[i + 1], BurnCfg.renderScaleQ)
        /\ renders' = renders + 1
        /\ pc' = "paint"
        /\ UNCHANGED << result, error >>
     \/ /\ Throw("getPage/render rejected")
        /\ UNCHANGED << canvas, renders >>
  /\ UNCHANGED << callVars, inputBytes, loadCalls, doc, pageSizes, worker, workersCreated,
                  workersTerminated, ocrEnabled, outCreated, outPages, i,
                  rects, ocrText, ocrTotalChars, texts, warnings, ocrLog, gptText >>

\* pageSizes[k] || fallback, k 0-based
SizeOr(k, fallback) == IF k + 1 <= Len(pageSizes) THEN pageSizes[k + 1] ELSE fallback

\* rects = computeRedactionRects(...); applyRedactionsToCanvas(ctx, rects);
\* then canvasToPngBytes(canvas) is awaited.
B_Paint ==
  /\ fn \in BurnFns /\ pc = "paint"
  /\ LET sizePtForRects == SizeOr(i, SizeOr(0, NoPtSize))
         rs == computeRedactionRects(mode, i, canvas.w, canvas.h, sizePtForRects, BurnCfg)
     IN /\ rects' = rs
        /\ canvas' = applyRedactionsToCanvas(canvas, rs)
  /\ pc' = "embed"
  /\ UNCHANGED << callVars, inputBytes, loadCalls, doc, pageSizes, worker, workersCreated,
                  workersTerminated, ocrEnabled, outCreated, outPages, i, renders,
                  ocrText, ocrTotalChars, texts, warnings, ocrLog, result, error, gptText >>

\* An output page: the embedded image (the raster it was encoded from), the
\* page size in points, and the runs of the invisible text layer.
OutPage(image, size, text) == [image |-> image, size |-> size, text |-> text]

\* png = await outPdf.embedPng(pngBytes); page = outPdf.addPage(...); page.drawImage(...)
B_Embed ==
  /\ fn \in BurnFns /\ pc = "embed"
  /\ \/ /\ outPages' = Append(outPages,
                         OutPage(canvas, SizeOr(i, PtSize(canvas.w, canvas.h)), <<>>))
        /\ IF BurnCfg.includeOcr
           THEN pc' = "ocr" /\ i' = i
           ELSE pc' = "page" /\ i' = i + 1
        /\ UNCHANGED << result, error >>
     \/ /\ Throw("embedPng rejected")
        /\ UNCHANGED << outPages, i >>
  /\ UNCHANGED << callVars, inputBytes, loadCalls, doc, pageSizes, worker, workersCreated,
                  workersTerminated, ocrEnabled, outCreated, renders,
                  canvas, rects, ocrText, ocrTotalChars, texts, warnings, ocrLog, gptText >>

\* The recognize call as the log keeps it.
OcrCall(pageNumber, raster) == [page |-> pageNumber, raster |-> raster]

\* result = await worker.recognize(canvas.toDataURL('image/png')): text comes
\* back and is trimmed, or recognition rejects and the catch rethrows.
B_Ocr ==
  /\ fn \in BurnFns /\ pc = "ocr"
  /\ ocrLog' = Append(ocrLog, OcrCall(i + 1, canvas))
  /\ \/ \E raw \in OcrTexts :
          LET text == trim(raw) IN
          /\ IF text # <<>>
             THEN /\ ocrTotalChars' = ocrTotalChars + Len(text)
                  /\ outPages' = [outPages EXCEPT ![Len(outPages)].text = addInvisibleTextLayer(text)]
             ELSE UNCHANGED << ocrTotalChars, outPages >>
          /\ texts' = IF fn = "redactPdfBytesWithText"
                      THEN Append(texts, <<PageHdr(i + 1), "\n">> \o text)
                      ELSE texts
          /\ i' = i + 1
          /\ pc' = "page"
          /\ UNCHANGED << result, error >>
     \/ /\ Throw("OCR failed on page")
        /\ UNCHANGED << ocrTotalChars, outPages, texts, i >>
  /\ UNCHANGED << callVars, inputBytes, loadCalls, doc, pageSizes, worker, workersCreated,
                  workersTerminated, ocrEnabled, outCreated, renders,
                  canvas, rects, ocrText, warnings, gptText >>

\* After the loop: try { await worker.terminate() } catch {}.  A rejection of
\* terminate() is swallowed.
B_Terminate ==
  /\ fn \in BurnFns /\ pc = "page" /\ i >= Len(doc)
  /\ IF worker = "worker"
     THEN \/ workersTerminated' = workersTerminated + 1
          \/ UNCHANGED workersTerminated
     ELSE UNCHANGED workersTerminated
  /\ pc' = "gate"
  /\ UNCHANGED << callVars, inputBytes, loadCalls, doc, pageSizes, worker, workersCreated,
                  ocrEnabled, outCreated, outPages, i, renders, canvas, rects, ocrText,
                  ocrTotalChars, texts, warnings, ocrLog, result, error, gptText >>

\* The searchability test of the burn-in pipeline.
SearchabilityUnmet_NoGate(includeOcr, totalChars) == FALSE
SearchabilityUnmet(includeOcr, totalChars) == includeOcr /\ totalChars = 0

\* if (cfg.includeOcr && ocrTotalChars === 0) throw ...; return await outPdf.save(...)
\* (redactPdfBytesWithText: with gptText = texts.join('\n\n').trim())
B_Gate ==
  /\ fn \in BurnFns /\ pc = "gate"
  /\ IF SearchabilityUnmet(BurnCfg.includeOcr, ocrTotalChars)
     THEN /\ Throw("OCR completed but produced 0 extractable characters")
          /\ UNCHANGED gptText
     ELSE /\ result' = "returned"
          /\ pc' = "done"
          /\ gptText' = IF fn = "redactPdfBytesWithText"
                        THEN trim(Join(texts, <<"\n", "\n">>)) ELSE <<>>
          /\ UNCHANGED error
  /\ UNCHANGED << callVars, inputBytes, loadCalls, doc, pageSizes, worker, workersCreated,
                  workersTerminated, ocrEnabled, outCreated, outPages, i, renders,
                  canvas, rects, ocrText, ocrTotalChars, texts, warnings, ocrLog >>

BurnNext ==
  \/ B_Normalize \/ B_Load \/ B_Retry \/ B_Sizes \/ B_Assets \/ B_CreateWorker
  \/ B_InitWorker \/ B_Create \/ B_Render \/ B_Paint \/ B_Embed \/ B_Ocr
  \/ B_Terminate \/ B_Gate

\* ------------------------------------------------- redactPdfBytesSecureOcr
\* Raster coordinates of secureExport.js are kept in 1/10160 pixels, in which
\* cmToPt(c/10 cm) * (q/4) is the whole number c * 7200 * q.
SecureUnit == CmPerInch100 * 10 * ScaleDen
cmToPtPx(cmTenths, scaleQ) == cmTenths * PtPerInch100 * scaleQ
\* The no_charge layout of secureExport.js: a 3.2 cm header band and, under it,
\* a box 3.0 cm high and min(55% of the width, 12 cm) wide.
SecureHeaderCmTenths == 32
SecureBoxHCmTenths == 30
SecureBoxWCmTenths == 120
SecureBoxWPercent == 55

\* The rectangles applyViewerRedactionsToCanvas hands to ctx.fillRect.
ViewerRects(canvasWidth, canvasHeight, m, scaleQ, surgeryTopCmTenths) ==
  LET W == canvasWidth * SecureUnit
      H == canvasHeight * SecureUnit
      hPx == cmToPtPx(surgeryTopCmTenths, scaleQ)
      headerHPx == cmToPtPx(SecureHeaderCmTenths, scaleQ)
      boxWPx == Min((W * SecureBoxWPercent) \div 100, cmToPtPx(SecureBoxWCmTenths, scaleQ))
      boxHPx == cmToPtPx(SecureBoxHCmTenths, scaleQ)
  IN (IF m = SURGERY_CENTER THEN << Rect(0, 0, W, Min(H, hPx)) >> ELSE <<>>)
       \o (IF m = NO_CHARGE
           THEN << Rect(0, 0, W, Min(H, headerHPx)), Rect(0, headerHPx, boxWPx, boxHPx) >>
           ELSE <<>>)

\* applyViewerRedactionsToCanvas: ctx.fillRect of each of them.
applyViewerRedactionsToCanvas(cv, m, scaleQ, surgeryTopCmTenths) ==
  FillAll(cv, ViewerRects(cv.w, cv.h, m, scaleQ, surgeryTopCmTenths))

RECURSIVE CollapseSpaces(_)
\* .replace(/[ ]{2,}/g, ' ')
CollapseSpaces(t) ==
  IF Len(t) < 2 THEN t
  ELSE IF t[1] = " " /\ t[2] = " " THEN CollapseSpaces(Tail(t))
  ELSE <<t[1]>> \o CollapseSpaces(Tail(t))

normalizeOcrText(text) ==
  LET noCr == SelectSeq(text, LAMBDA c : c # "\r")
      noTab == [k \in 1..Len(noCr) |-> IF noCr[k] = "\t" THEN " " ELSE noCr[k]]
  IN CollapseSpaces(noTab)

\* The chunk length of the secure export's text layer.
SecureChunk == 3500

\* if (ocrText && ocrText.trim()) { chunks of max = 3500; drawText of each }
secureTextLayer(text) ==
  IF trim(text) # <<>> THEN Chunks(text, SecureChunk) ELSE <<>>

\* const pageNums = cfg.onlyFirstPage ? [1] : [1 .. pdf.numPages]
pageNums(onlyFirstPage, numPages) ==
  IF onlyFirstPage THEN <<1>> ELSE [k \in 1..numPages |-> k]

\* pdf = await getDocument(...).promise; outPdf = await PDFDocument.create()
S_Load ==
  /\ fn = SecureFn /\ pc = "start"
  /\ loadCalls' = Append(loadCalls, inputBytes.bytes)
  /\ \/ \E d \in Docs :
          /\ doc' = d
          /\ outCreated' = TRUE
          /\ pc' = IF SecureCfg.ocr THEN "s_worker" ELSE "s_page"
          /\ UNCHANGED << result, error >>
     \/ /\ Throw("PDF.js rejected the document")
        /\ UNCHANGED << doc, outCreated >>
  /\ UNCHANGED << callVars, inputBytes, pageSizes, worker, workersCreated,
                  workersTerminated, ocrEnabled, outPages, i, renders,
                  canvas, rects, ocrText, ocrTotalChars, texts, warnings, ocrLog, gptText >>

\* tess = await getTesseractWorker(): the worker is created and initialized, or
\* createWorker rejects, or loadLanguage/initialize rejects after it was created.
S_GetWorker ==
  /\ fn = SecureFn /\ pc = "s_worker"
  /\ \/ /\ worker' = "worker"
        /\ workersCreated' = workersCreated + 1
        /\ pc' = "s_page"
        /\ UNCHANGED << result, error >>
     \/ /\ Throw("createWorker rejected")
        /\ UNCHANGED << worker, workersCreated >>
     \/ /\ Throw("loadLanguage/initialize rejected")
        /\ workersCreated' = workersCreated + 1
        /\ UNCHANGED worker
  /\ UNCHANGED << callVars, inputBytes, loadCalls, doc, pageSizes,
                  workersTerminated, ocrEnabled, outCreated, outPages, i, renders,
                  canvas, rects, ocrText, ocrTotalChars, texts, warnings, ocrLog, gptText >>

SecurePageNums == pageNums(SecureCfg.onlyFirstPage, Len(doc))

\* page = await pdf.getPage(pageNumber); canvas of floor(vpPx) pixels;
\* await page.render(...).promise
S_Render ==
  /\ fn = SecureFn /\ pc = "s_page" /\ i < Len(SecurePageNums)
  /\ \/ LET n == SecurePageNums[i + 1]
            vp == Viewport(doc[n])
        IN /\ canvas' = Canvas(n, (vp.width * SecureCfg.renderScaleQ) \div ScaleDen,
                               (vp.height * SecureCfg.renderScaleQ) \div ScaleDen, SecureUnit)
           /\ renders' = renders + 1
           /\ pc' = "s_paint"
           /\ UNCHANGED << result, error >>
     \/ /\ Throw("getPage/render rejected")
        /\ UNCHANGED << canvas, renders >>
  /\ UNCHANGED << callVars, inputBytes, loadCalls, doc, pageSizes, worker, workersCreated,
                  workersTerminated, ocrEnabled, outCreated, outPages, i,
                  rects, ocrText, ocrTotalChars, texts, warnings, ocrLog, gptText >>

\* applyViewerRedactionsToCanvas({...}); let ocrText = ''
S_Paint ==
  /\ fn = SecureFn /\ pc = "s_paint"
  /\ rects' = ViewerRects(canvas.w, canvas.h, mode, SecureCfg.renderScaleQ,
                          SecureCfg.surgeryTopCmTenths)
  /\ canvas' = applyViewerRedactionsToCanvas(canvas, mode, SecureCfg.renderScaleQ,
                                             SecureCfg.surgeryTopCmTenths)
  /\ ocrText' = <<>>
  /\ pc' = IF worker = "worker" THEN "s_ocr" ELSE "s_embed"
  /\ UNCHANGED << callVars, inputBytes, loadCalls, doc, pageSizes, worker, workersCreated,
                  workersTerminated, ocrEnabled, outCreated, outPages, i, renders,
                  ocrTotalChars, texts, warnings, ocrLog, result, error, gptText >>

\* r = await tess.recognize(canvas); ocrText = normalizeOcrText(r?.data?.text || '')
S_Ocr ==
  /\ fn = SecureFn /\ pc = "s_ocr"
  /\ ocrLog' = Append(ocrLog, OcrCall(canvas.page, canvas))
  /\ \/ \E raw \in OcrTexts :
          /\ ocrText' = normalizeOcrText(raw)
          /\ pc' = "s_embed"
          /\ UNCHANGED << result, error >>
     \/ /\ Throw("recognize rejected")
        /\ UNCHANGED ocrText
  /\ UNCHANGED << callVars, inputBytes, loadCalls, doc, pageSizes, worker, workersCreated,
                  workersTerminated, ocrEnabled, outCreated, outPages, i, renders,
                  canvas, rects, ocrTotalChars, texts, warnings, gptText >>

\* imgBytes = await canvasToPngBytes(canvas); img = await outPdf.embedPng(imgBytes);
\* outPage = outPdf.addPage([vpPt.width, vpPt.height]); drawImage; the text runs
S_Embed ==
  /\ fn = SecureFn /\ pc = "s_embed"
  /\ \/ LET vpPt == Viewport(doc[canvas.page]) IN
        /\ outPages' = Append(outPages,
                         OutPage(canvas, PtSize(vpPt.width, vpPt.height),
                                 secureTextLayer(ocrText)))
        /\ i' = i + 1
        /\ pc' = "s_page"
        /\ UNCHANGED << result, error >>
     \/ /\ Throw("Failed to rasterize canvas / embedPng rejected")
        /\ UNCHANGED << outPages, i >>
  /\ UNCHANGED << callVars, inputBytes, loadCalls, doc, pageSizes, worker, workersCreated,
                  workersTerminated, ocrEnabled, outCreated, renders,
                  canvas, rects, ocrText, ocrTotalChars, texts, warnings, ocrLog, gptText >>

\* return await outPdf.save({ useObjectStreams: false })
S_Save ==
  /\ fn = SecureFn /\ pc = "s_page" /\ i >= Len(SecurePageNums)
  /\ result' = "returned"
  /\ pc' = "done"
  /\ UNCHANGED << callVars, inputBytes, loadCalls, doc, pageSizes, worker, workersCreated,
                  workersTerminated, ocrEnabled, outCreated, outPages, i, renders, canvas,
                  rects, ocrText, ocrTotalChars, texts, warnings, ocrLog, error, gptText >>

SecureNext == S_Load \/ S_GetWorker \/ S_Render \/ S_Paint \/ S_Ocr \/ S_Embed \/ S_Save

\* ------------------------------------------------------- buildRasterOcrPdf
\* Raster coordinates of buildRasterOcrPdf are kept in 1/80 pixels, in which a
\* length of t twips at a scale of q/4 is the whole number t * q.
RasterUnit == Twips * ScaleDen

\* rectsToCanvas: page rectangles (origin bottom-left) to canvas rectangles
\* (origin top-left), scaled.
rectsToCanvas(rs, pageW, pageH, scaleQ) ==
  [k \in 1..Len(rs) |->
     Rect(rs[k].x * scaleQ, (pageH - (rs[k].y + rs[k].h)) * scaleQ,
          rs[k].w * scaleQ, rs[k].h * scaleQ)]

drawRedactionRectsOnCanvas_Skip(cv, rs) == cv

\* drawRedactionRectsOnCanvas: ctx.fillRect of every rectangle.
drawRedactionRectsOnCanvas(cv, rs) == FillAll(cv, rs)

\* The warnings buildRasterOcrPdf pushes.
WarnOcrInit == <<"OCR could not be initialized", 0>>
WarnNoText(pageNumber) == <<"OCR returned no text", pageNumber>>

\* const bytes = normalizePdfBytes(pdfBytes)
R_Normalize ==
  /\ fn = RasterFn /\ pc = "start"
  /\ LET r == normalizePdfBytesRaster(inputBytes) IN
     IF r.ok
     THEN /\ inputBytes' = Bytes(r.out)
          /\ pc' = "r_load"
          /\ UNCHANGED << result, error >>
     ELSE /\ Throw(r.err)
          /\ UNCHANGED inputBytes
  /\ UNCHANGED << callVars, loadCalls, doc, pageSizes, worker, workersCreated,
                  workersTerminated, ocrEnabled, outCreated, outPages, i, renders,
                  canvas, rects, ocrText, ocrTotalChars, texts, warnings, ocrLog, gptText >>

\* src = await pdfjsLib.getDocument({ data: bytes }).promise; out = await PDFDocument.create()
R_Load ==
  /\ fn = RasterFn /\ pc = "r_load"
  /\ loadCalls' = Append(loadCalls, inputBytes.bytes)
  /\ \/ \E d \in Docs :
          /\ doc' = d
          /\ outCreated' = TRUE
          /\ pc' = "r_worker"
          /\ UNCHANGED << result, error >>
     \/ /\ Throw("PDF.js rejected the document")
        /\ UNCHANGED << doc, outCreated >>
  /\ UNCHANGED << callVars, inputBytes, pageSizes, worker, workersCreated,
                  workersTerminated, ocrEnabled, outPages, i, renders,
                  canvas, rects, ocrText, ocrTotalChars, texts, warnings, ocrLog, gptText >>

\* The catch block that pushes no warning.
catchOcrInit_Silent(ws) == ws

\* catch(e){ ocrEnabled = false; warnings.push('OCR could not be initialized. ...') }
catchOcrInit(ws) == Append(ws, WarnOcrInit)

\* try { worker = await getTesseractWorker('eng') } catch { ocrEnabled = false; warn }
\* getTesseractWorker creates the worker and then loads and initializes the
\* language: a rejection of the latter leaves a created worker nobody holds.
R_GetWorker ==
  /\ fn = RasterFn /\ pc = "r_worker"
  /\ \/ /\ worker' = "worker"
        /\ workersCreated' = workersCreated + 1
        /\ UNCHANGED << ocrEnabled, warnings >>
     \/ /\ ocrEnabled' = FALSE
        /\ warnings' = catchOcrInit(warnings)
        /\ UNCHANGED << worker, workersCreated >>
     \/ /\ ocrEnabled' = FALSE
        /\ warnings' = catchOcrInit(warnings)
        /\ workersCreated' = workersCreated + 1
        /\ UNCHANGED worker
  /\ i' = 0
  /\ pc' = "r_page"
  /\ UNCHANGED << callVars, inputBytes, loadCalls, doc, pageSizes,
                  workersTerminated, outCreated, outPages, renders,
                  canvas, rects, ocrText, ocrTotalChars, texts, ocrLog, result, error,
                  gptText >>

\* page = await src.getPage(pageIndex + 1); renderPageToCanvas of part_011: a
\* canvas of ceil(viewport * scale) pixels.
R_Render ==
  /\ fn = RasterFn /\ pc = "r_page" /\ i < Len(doc)
  /\ \/ LET vp == Viewport(doc[i + 1]) IN
        /\ canvas' = Canvas(i + 1, Ceil(vp.width * RasterScaleQ, ScaleDen),
                            Ceil(vp.height * RasterScaleQ, ScaleDen), RasterUnit)
        /\ renders' = renders + 1
        /\ pc' = "r_paint"
        /\ UNCHANGED << result, error >>
     \/ /\ Throw("getPage/render rejected")
        /\ UNCHANGED << canvas, renders >>
  /\ UNCHANGED << callVars, inputBytes, loadCalls, doc, pageSizes, worker, workersCreated,
                  workersTerminated, ocrEnabled, outCreated, outPages, i,
                  rects, ocrText, ocrTotalChars, texts, warnings, ocrLog, gptText >>

\* rects = getRedactionRects(mode, pageIndex, pageW, pageH);
\* drawRedactionRectsOnCanvas(ctx, rectsToCanvas(rects, pageW, pageH, scale))
R_Paint ==
  /\ fn = RasterFn /\ pc = "r_paint"
  /\ LET vp == Viewport(doc[i + 1])
         pageW == vp.width * Twips
         pageH == vp.height * Twips
         rs == getRedactionRects(mode, i, pageW, pageH)
     IN /\ rects' = rectsToCanvas(rs, pageW, pageH, RasterScaleQ)
        /\ canvas' = drawRedactionRectsOnCanvas(canvas,
                       rectsToCanvas(rs, pageW, pageH, RasterScaleQ))
  /\ pc' = "r_embed"
  /\ UNCHANGED << callVars, inputBytes, loadCalls, doc, pageSizes, worker, workersCreated,
                  workersTerminated, ocrEnabled, outCreated, outPages, i, renders,
                  ocrText, ocrTotalChars, texts, warnings, ocrLog, result, error, gptText >>

\* img = await out.embedPng(pngBytes); outPage = out.addPage([pageW, pageH]); drawImage
R_Embed ==
  /\ fn = RasterFn /\ pc = "r_embed"
  /\ \/ LET vp == Viewport(doc[i + 1]) IN
        /\ outPages' = Append(outPages, OutPage(canvas, PtSize(vp.width, vp.height), <<>>))
        /\ IF ocrEnabled /\ worker = "worker"
           THEN pc' = "r_ocr" /\ i' = i
           ELSE pc' = "r_page" /\ i' = i + 1
        /\ UNCHANGED << result, error >>
     \/ /\ Throw("embedPng rejected")
        /\ UNCHANGED << outPages, i >>
  /\ UNCHANGED << callVars, inputBytes, loadCalls, doc, pageSizes, worker, workersCreated,
                  workersTerminated, ocrEnabled, outCreated, renders,
                  canvas, rects, ocrText, ocrTotalChars, texts, warnings, ocrLog, gptText >>

\* result = await worker.recognize(canvas): no try/catch around it.
R_Ocr ==
  /\ fn = RasterFn /\ pc = "r_ocr"
  /\ ocrLog' = Append(ocrLog, OcrCall(i + 1, canvas))
  /\ \/ \E raw \in OcrTexts :
          LET text == trim(raw) IN
          /\ IF text # <<>>
             THEN /\ texts' = Append(texts, <<"\n", "\n", PageHdr(i + 1), "\n">> \o text)
                  /\ outPages' = [outPages EXCEPT ![Len(outPages)].text = <<text>>]
                  /\ UNCHANGED warnings
             ELSE /\ warnings' = Append(warnings, WarnNoText(i + 1))
                  /\ UNCHANGED << texts, outPages >>
          /\ i' = i + 1
          /\ pc' = "r_page"
          /\ UNCHANGED << result, error >>
     \/ /\ Throw("recognize rejected")
        /\ UNCHANGED << outPages, texts, warnings, i >>
  /\ UNCHANGED << callVars, inputBytes, loadCalls, doc, pageSizes, worker, workersCreated,
                  workersTerminated, ocrEnabled, outCreated, renders,
                  canvas, rects, ocrText, ocrTotalChars, gptText >>

\* if (worker) await worker.terminate()
R_Terminate ==
  /\ fn = RasterFn /\ pc = "r_page" /\ i >= Len(doc)
  /\ IF worker = "worker"
     THEN \/ /\ workersTerminated' = workersTerminated + 1
             /\ pc' = "r_save"
             /\ UNCHANGED << result, error >>
          \/ /\ Throw("terminate rejected")
             /\ UNCHANGED workersTerminated
     ELSE /\ pc' = "r_save"
          /\ UNCHANGED << workersTerminated, result, error >>
  /\ UNCHANGED << callVars, inputBytes, loadCalls, doc, pageSizes, worker, workersCreated,
                  ocrEnabled, outCreated, outPages, i, renders, canvas, rects, ocrText,
                  ocrTotalChars, texts, warnings, ocrLog, gptText >>

\* return { pdfBytes: await out.save(...), gptText: allText.trim(), warnings }
R_Save ==
  /\ fn = RasterFn /\ pc = "r_save"
  /\ result' = "returned"
  /\ gptText' = trim(Join(texts, <<>>))
  /\ pc' = "done"
  /\ UNCHANGED << callVars, inputBytes, loadCalls, doc, pageSizes, worker, workersCreated,
                  workersTerminated, ocrEnabled, outCreated, outPages, i, renders, canvas,
                  rects, ocrText, ocrTotalChars, texts, warnings, ocrLog, error >>

RasterNext ==
  \/ R_Normalize \/ R_Load \/ R_GetWorker \/ R_Render \/ R_Paint \/ R_Embed \/ R_Ocr
  \/ R_Terminate \/ R_Save

Next == BurnNext \/ SecureNext \/ RasterNext

Spec == Init /\ [][Next]_vars

\* ------------------------------------------------------ the zone resolvers
\* The three resolvers as functions: a call is drawn, the resolver answers.
\* Page heights run over multiples of 25 pt (below and above the 1 cm and
\* 4 cm bands and the 300 pt block), page widths below and above 612 pt.
ZoneHStep == 25
ZoneHeights == { ZoneHStep * k : k \in 1..MaxDimK }
ZoneWidths == { 100, LetterW, 700 }

ZoneCalls ==
  { [resolver |-> "getRedactionRects", mode |-> m, pageIndex |-> k,
     W |-> w * Twips, H |-> h * Twips] :
      m \in {EPIC_HEADER_FOOTER, SURGERY_TOP_BAND}, k \in {0, 1},
      w \in ZoneWidths, h \in ZoneHeights }
  \cup
  { [resolver |-> "computeRects", mode |-> m, pageIndex |-> k,
     W |-> w * Twips, H |-> h * Twips] :
      m \in {SURGERY_CENTER, NO_CHARGE}, k \in {0, 1},
      w \in ZoneWidths, h \in ZoneHeights }
  \cup
  \* computeRedactionRects on the raster of an unrotated w x h pt page rendered
  \* at renderScale 2, with and without the page's size in points.
  { [resolver |-> "computeRedactionRects", mode |-> m, pageIndex |-> k,
     W |-> (w * BurnScaleQ) \div ScaleDen, H |-> (h * BurnScaleQ) \div ScaleDen,
     pageSizePt |-> sz, applyAllPages |-> ap] :
      m \in {SURGERY_CENTER, NO_CHARGE}, k \in {0, 1},
      w \in {LetterW}, h \in ZoneHeights,
      sz \in { PtSize(LetterW, hh) : hh \in ZoneHeights } \cup { NoPtSize },
      ap \in BOOLEAN }

ZoneCfg(ap) ==
  [ applyAllPages |-> ap, includeOcr |-> TRUE, renderScaleQ |-> BurnScaleQ,
    surgeryTopCm |-> DefaultSurgeryTopCm, alsoRedactFooter |-> TRUE ]

\* No pipeline runs.
NoCall ==
  /\ fn = "none" /\ mode = "none" /\ opts = NoOpts /\ env = DefaultEnv
  /\ inputBytes = NoBytes
  /\ InitRun

InitZones ==
  /\ zin \in { c \in ZoneCalls :
                 c.resolver = "computeRedactionRects" /\ c.pageSizePt.given
                   => c.pageSizePt.height * BurnScaleQ = c.H * ScaleDen }
  /\ zout = ZonePending /\ zfirst = ZonePending
  /\ store = NoStore /\ template = NoTemplate
  /\ NoCall

Z_getRedactionRects ==
  /\ zin.resolver = "getRedactionRects" /\ ~zout.done
  /\ zout' = ZoneAnswer(getRedactionRects(zin.mode, zin.pageIndex, zin.W, zin.H))
  /\ UNCHANGED << argVars, runVars, zin, zfirst, store, template >>

Z_computeRects ==
  /\ zin.resolver = "computeRects" /\ ~zout.done
  /\ zout' = ZoneAnswer(computeRects(zin.mode, zin.pageIndex, zin.W, zin.H))
  /\ UNCHANGED << argVars, runVars, zin, zfirst, store, template >>

Z_computeRedactionRects ==
  /\ zin.resolver = "computeRedactionRects" /\ ~zout.done
  /\ zout' = ZoneAnswer(computeRedactionRects(zin.mode, zin.pageIndex, zin.W, zin.H,
                                              zin.pageSizePt, ZoneCfg(zin.applyAllPages)))
  /\ UNCHANGED << argVars, runVars, zin, zfirst, store, template >>

NextZones == Z_getRedactionRects \/ Z_computeRects \/ Z_computeRedactionRects

SpecZones == InitZones /\ [][NextZones]_vars

\* ---- computeRedactionRects on a raster without area.
\* canvas.width = Math.floor(viewport.width): a page narrower than half a point
\* rendered at scale 2 gives a raster 0 pixels wide.  The calls are those whose
\* arithmetic stays in the integers: the page height in the frac's denominator
\* is positive.
DegenerateCalls ==
  { [resolver |-> "computeRedactionRects", mode |-> m, pageIndex |-> k,
     W |-> w, H |-> h, pageSizePt |-> NoPtSize, applyAllPages |-> ap] :
      m \in {SURGERY_CENTER, NO_CHARGE}, k \in {0, 1},
      w \in {0} \cup ZoneWidths, h \in {0} \cup ZoneHeights, ap \in BOOLEAN }

Degenerate(c) == c.W <= 0 \/ c.H <= 0

InitDegenerate ==
  /\ zin \in { c \in DegenerateCalls :
                 /\ Degenerate(c)
                 /\ c.mode = SURGERY_CENTER => c.H > 0 }
  /\ zout = ZonePending /\ zfirst = ZonePending
  /\ store = NoStore /\ template = NoTemplate
  /\ NoCall

SpecDegenerate == InitDegenerate /\ [][Z_computeRedactionRects]_vars

\* ---- redactPdfBytes on documents of which pdf-lib may list fewer pages than
\* PDF.js opens (a page tree leaf without /Type /Page is a page to PDF.js and
\* none to pdf-lib's getPages).
SizesCalls ==
  { c \in Calls : c.fn = "redactPdfBytes" /\ c.mode = SURGERY_CENTER
                    /\ c.opts.applyAllPages = "unset" }

InitSizes ==
  /\ \E c \in SizesCalls :
       fn = c.fn /\ inputBytes = c.arg /\ mode = c.mode /\ opts = c.opts
  /\ env \in { Env("reachable", p) : p \in {"agrees", "short"} }
  /\ Idle

SpecSizes == InitSizes /\ [][BurnNext]_vars

\* ------------------------------------------- redactPdfArrayBuffer (redact.js)
BandsFn == "redactPdfArrayBuffer"

\* maxWidth = 1400
MaxWidth == 1400
\* Math.min(maxWidth / viewport0.width, 3.0)
MaxScale == 3
PtPerInch == 72
\* Measurements are kept in 1/100 inch.
InchDen == 100

\* scale = Math.min(maxWidth / viewport0.width, 3.0), as a fraction.
BandScale(page) ==
  IF MaxWidth < MaxScale * Viewport(page).width
  THEN [num |-> MaxWidth, den |-> Viewport(page).width]
  ELSE [num |-> MaxScale, den |-> 1]

\* renderPageToCanvas of redact.js: canvas of floor(viewport) pixels.
BandCanvas(pageNumber, page) ==
  LET sc == BandScale(page)
  IN Canvas(pageNumber, (Viewport(page).width * sc.num) \div sc.den,
            (Viewport(page).height * sc.num) \div sc.den, 1)

\* pxFromInches(inches, scale) = Math.round(inches * 72 * scale)
pxFromInches(inches, sc) == Round(inches * PtPerInch * sc.num, InchDen * sc.den)

\* The rectangle drawTopBandInches passes to fillRect.
drawTopBandInches(cv, sc, inchesFromTop) ==
  Rect(0, 0, cv.w, pxFromInches(inchesFromTop, sc))

\* The rectangle drawBottomBandInches passes to fillRect.
drawBottomBandInches(cv, sc, inchesFromBottom) ==
  LET bandPx == pxFromInches(inchesFromBottom, sc)
  IN Rect(0, Max(0, cv.h - bandPx), cv.w, bandPx)

\* The rectangles drawNormalizedRects passes to fillRect for TEMPLATES.notes.rects:
\* { 0, 0, 1.0, 0.12 } and { 0, 0.12, 0.55, 0.12 }.
drawNormalizedRects(cv) ==
  << Rect(0, 0, cv.w, Round(12 * cv.h, 100)),
     Rect(0, Round(12 * cv.h, 100), Round(55 * cv.w, 100), Round(12 * cv.h, 100)) >>

\* The top measurement of page i that always takes the first page's.
TopInches_FirstOnly(tpl, pageNumber) == tpl.firstPage

\* i === 1 ? firstPage : otherPages
TopInches(tpl, pageNumber) ==
  IF pageNumber = 1 THEN tpl.firstPage ELSE tpl.otherPages

\* The fills of one page of the loop of redactPdfArrayBuffer, in order.
BandRects(tpl, pageNumber, cv, sc) ==
  IF tpl.mode = "top_band_inches"
    THEN << drawTopBandInches(cv, sc, TopInches(tpl, pageNumber)) >>
  ELSE IF tpl.mode = "bands_inches"
    THEN << drawTopBandInches(cv, sc, TopInches(tpl, pageNumber)),
            drawBottomBandInches(cv, sc, tpl.bottomAllPages) >>
  ELSE drawNormalizedRects(cv)

\* The pages the band pipeline is run on: Letter upright and rotated, and a
\* page narrow enough for the scale to be capped at 3.
BandPageKinds == { Page(LetterW, LetterH, 0), Page(LetterW, LetterH, 90), Page(400, 500, 0) }
BandDocs == SeqsUpTo(BandPageKinds, MaxPages)

\* What the tuner may have saved: clamp(Number(value), 0, 10) inches each.
SavedOverrides == { Override(200, 100, 50), Override(1000, 0, 1000) }
Stores == [BandKeys -> {NoOverride} \cup SavedOverrides]

InitBands ==
  /\ fn = BandsFn /\ opts = NoOpts /\ env = DefaultEnv
  /\ mode \in TemplateKeys \cup {"unknown"}
  /\ inputBytes = Bytes(Pdf14)
  /\ store \in Stores
  /\ zin = NoZoneCall /\ zout = ZonePending /\ zfirst = ZonePending
  /\ template = NoTemplate
  /\ InitRun

bandVars == << argVars, zin, zout, zfirst, store, inputBytes, pageSizes, worker,
               workersCreated, workersTerminated, ocrEnabled, ocrText, ocrTotalChars,
               texts, warnings, ocrLog, gptText >>

\* template = resolveTemplate(templateKey); if (!template) throw
A_Resolve ==
  /\ fn = BandsFn /\ pc = "start"
  /\ template' = resolveTemplate(store, mode)
  /\ IF template' = NoTemplate
     THEN Throw("Unknown template")
     ELSE pc' = "a_load" /\ UNCHANGED << result, error >>
  /\ UNCHANGED << bandVars, loadCalls, doc, outCreated, outPages, i, renders, canvas, rects >>

\* pdf = await loadingTask.promise; outPdf = await PDFDocument.create()
A_Load ==
  /\ fn = BandsFn /\ pc = "a_load"
  /\ loadCalls' = Append(loadCalls, inputBytes.bytes)
  /\ \/ \E d \in BandDocs :
          /\ doc' = d
          /\ outCreated' = TRUE
          /\ pc' = "a_page"
          /\ UNCHANGED << result, error >>
     \/ /\ Throw("PDF.js rejected the document")
        /\ UNCHANGED << doc, outCreated >>
  /\ UNCHANGED << bandVars, template, outPages, i, renders, canvas, rects >>

\* page = await pdf.getPage(i); { canvas, scale } = await renderPageToCanvas(page, maxWidth)
A_Render ==
  /\ fn = BandsFn /\ pc = "a_page" /\ i < Len(doc)
  /\ \/ /\ canvas' = BandCanvas(i + 1, doc[i + 1])
        /\ renders' = renders + 1
        /\ pc' = "a_paint"
        /\ UNCHANGED << result, error >>
     \/ /\ Throw("getPage/render rejected")
        /\ UNCHANGED << canvas, renders >>
  /\ UNCHANGED << bandVars, template, loadCalls, doc, outCreated, outPages, i, rects >>

\* The bands of the template's mode are filled; canvasToPngBytes is awaited.
A_Paint ==
  /\ fn = BandsFn /\ pc = "a_paint"
  /\ rects' = BandRects(template, i + 1, canvas, BandScale(doc[i + 1]))
  /\ canvas' = FillAll(canvas, rects')
  /\ pc' = "a_embed"
  /\ UNCHANGED << bandVars, template, loadCalls, doc, outCreated, outPages, i, renders,
                  result, error >>

\* embedded = await outPdf.embedPng(pngBytes); addPage([width, height]); drawImage
A_Embed ==
  /\ fn = BandsFn /\ pc = "a_embed"
  /\ \/ /\ outPages' = Append(outPages, OutPage(canvas, PtSize(canvas.w, canvas.h), <<>>))
        /\ i' = i + 1
        /\ pc' = "a_page"
        /\ UNCHANGED << result, error >>
     \/ /\ Throw("embedPng rejected")
        /\ UNCHANGED << outPages, i >>
  /\ UNCHANGED << bandVars, template, loadCalls, doc, outCreated, renders, canvas, rects >>

\* pdfBytes = await outPdf.save(); return { pdfBytes, images, pageCount }
A_Save ==
  /\ fn = BandsFn /\ pc = "a_page" /\ i = Len(doc)
  /\ pc' = "done"
  /\ result' = "returned"
  /\ UNCHANGED << bandVars, template, loadCalls, doc, outCreated, outPages, i, renders,
                  canvas, rects, error >>

BandsNext == A_Resolve \/ A_Load \/ A_Render \/ A_Paint \/ A_Embed \/ A_Save

SpecBands == InitBands /\ [][BandsNext]_vars

\* ------------------------------- buildSearchablePdfFromText (unnamed/part_011)
RebuildFn == "buildSearchablePdfFromText"

\* pointInRect, isPointRedacted of lib/templates.js
pointInRect(px, py, r) ==
  px >= r.x /\ px <= r.x + r.w /\ py >= r.y /\ py <= r.y + r.h

isPointRedacted(px, py, rs) == \E k \in 1..Len(rs) : pointInRect(px, py, rs[k])

\* A text item of PDF.js, in page coordinates (twips, origin bottom-left): its
\* string, the left end of its baseline, its advance width and its height.
Item(str, x, y, w, h) == [str |-> str, x |-> x, y |-> y, w |-> w, h |-> h]

\* Items of a Letter page: in the body; inside the top centimetre; 12 pt high
\* with the baseline 7 pt under the 300 pt page-1 block; 12 pt high with the
\* baseline 6.6 pt under the 4 cm band; 12 pt high with the baseline 3.65 pt
\* under the 1 cm header; and an item without a string.
ItemBody == Item("BODY", 72 * Twips, 400 * Twips, 200 * Twips, 12 * Twips)
ItemTop == Item("TOP", 72 * Twips, (LetterH - 10) * Twips, 200 * Twips, 12 * Twips)
ItemUnderBlock == Item("UNDERBLOCK", 72 * Twips, (LetterH - 307) * Twips, 200 * Twips, 12 * Twips)
ItemUnderBand == Item("UNDERBAND", 72 * Twips, (LetterH - 120) * Twips, 200 * Twips, 12 * Twips)
ItemUnderHeader == Item("UNDERHEADER", 72 * Twips, (LetterH - 32) * Twips, 200 * Twips, 12 * Twips)
ItemEmpty == Item("", 72 * Twips, 300 * Twips, 0, 0)

ItemLists ==
  { <<>>, << ItemBody >>, << ItemTop, ItemBody >>, << ItemUnderBand, ItemEmpty >>,
    << ItemBody, ItemUnderBlock >>, << ItemUnderHeader >> }

\* A page with its text content.
TextPage(items) == [w |-> LetterW, h |-> LetterH, rot |-> 0, items |-> items]
TextDocs == SeqsUpTo({ TextPage(its) : its \in ItemLists }, MaxPages)

\* `--- Page ${k} (no extractable text) ---`
NoTextHdr(k) ==
  CASE k = 1 -> "--- Page 1 (no extractable text) ---"
    [] k = 2 -> "--- Page 2 (no extractable text) ---"
    [] k = 3 -> "--- Page 3 (no extractable text) ---"
    [] k = 4 -> "--- Page 4 (no extractable text) ---"
    [] OTHER -> "--- Page n (no extractable text) ---"

WarnNoContent(pageNumber) == <<"no text content detected", pageNumber>>

\* A page of the rebuilt document: its size, the black rectangles drawn on it
\* and the text items drawn on it.
RebuiltPage(size, boxes, text) == [size |-> size, boxes |-> boxes, text |-> text]

RECURSIVE KeptItems(_, _, _)
\* The items the loop over textContent.items draws: those with a string whose
\* point (x, y) is in no rectangle.
KeptItems(items, rs, pageH) ==
  IF items = <<>> THEN <<>>
  ELSE LET item == Head(items)
           x == item.x
           yTop == pageH - item.y
           y == pageH - yTop
           rest == KeptItems(Tail(items), rs, pageH)
       IN IF item.str = "" THEN rest
          ELSE IF isPointRedacted(x, y, rs) THEN rest
          ELSE << item >> \o rest

RECURSIVE ItemsText(_)
\* allText += str; if (!str.endsWith(' ')) allText += ' '
ItemsText(items) ==
  IF items = <<>> THEN <<>>
  ELSE << Head(items).str, " " >> \o ItemsText(Tail(items))

InitRebuild ==
  /\ fn = RebuildFn /\ opts = NoOpts /\ env = DefaultEnv
  /\ mode \in {EPIC_HEADER_FOOTER, SURGERY_TOP_BAND}
  /\ inputBytes \in { Bytes(Pdf14), NoBytes }
  /\ NoSideState
  /\ InitRun

rebuildVars == << callVars, pageSizes, worker, workersCreated, workersTerminated,
                  ocrEnabled, renders, canvas, ocrText, ocrTotalChars, ocrLog >>

\* const bytes = normalizePdfBytes(pdfBytes)
X_Normalize ==
  /\ fn = RebuildFn /\ pc = "start"
  /\ LET r == normalizePdfBytesRaster(inputBytes) IN
     IF r.ok
     THEN /\ inputBytes' = Bytes(r.out)
          /\ pc' = "x_load"
          /\ UNCHANGED << result, error >>
     ELSE /\ Throw(r.err)
          /\ UNCHANGED inputBytes
  /\ UNCHANGED << rebuildVars, loadCalls, doc, outCreated, outPages, i, rects, texts,
                  warnings, gptText >>

\* src = await pdfjsLib.getDocument({ data: bytes }).promise; out = await PDFDocument.create()
X_Load ==
  /\ fn = RebuildFn /\ pc = "x_load"
  /\ loadCalls' = Append(loadCalls, inputBytes.bytes)
  /\ \/ \E d \in TextDocs :
          /\ doc' = d
          /\ outCreated' = TRUE
          /\ pc' = "x_page"
          /\ UNCHANGED << result, error >>
     \/ /\ Throw("PDF.js rejected the document")
        /\ UNCHANGED << doc, outCreated >>
  /\ UNCHANGED << rebuildVars, inputBytes, outPages, i, rects, texts, warnings, gptText >>

\* page = await src.getPage(pageIndex + 1); rects = getRedactionRects(...);
\* outPage = out.addPage([pageW, pageH]); drawRectangle for every rect; then
\* page.getTextContent is awaited.
X_GetPage ==
  /\ fn = RebuildFn /\ pc = "x_page" /\ i < Len(doc)
  /\ \/ LET vp == Viewport(doc[i + 1])
            pageW == vp.width * Twips
            pageH == vp.height * Twips
            rs == getRedactionRects(mode, i, pageW, pageH)
        IN /\ rects' = rs
           /\ outPages' = Append(outPages, RebuiltPage(PtSize(pageW, pageH), rs, <<>>))
           /\ pc' = "x_text"
           /\ UNCHANGED << result, error >>
     \/ /\ Throw("getPage rejected")
        /\ UNCHANGED << rects, outPages >>
  /\ UNCHANGED << rebuildVars, inputBytes, loadCalls, doc, outCreated, i, texts, warnings,
                  gptText >>

\* The text content of the page arrives: without items the page is noted as
\* having no text; otherwise every item that is kept is drawn and appended.
X_Text ==
  /\ fn = RebuildFn /\ pc = "x_text"
  /\ \/ LET items == doc[i + 1].items
            pageH == Viewport(doc[i + 1]).height * Twips
            kept == KeptItems(items, rects, pageH)
        IN /\ IF items = <<>>
              THEN /\ warnings' = Append(warnings, WarnNoContent(i + 1))
                   /\ texts' = texts \o << "\n", "\n", NoTextHdr(i + 1), "\n" >>
                   /\ UNCHANGED outPages
              ELSE /\ texts' = texts \o << "\n", "\n", PageHdr(i + 1), "\n" >> \o ItemsText(kept)
                   /\ outPages' = [outPages EXCEPT ![i + 1].text = kept]
                   /\ UNCHANGED warnings
           /\ i' = i + 1
           /\ pc' = "x_page"
           /\ UNCHANGED << result, error >>
     \/ /\ Throw("getTextContent rejected")
        /\ UNCHANGED << outPages, texts, warnings, i >>
  /\ UNCHANGED << rebuildVars, inputBytes, loadCalls, doc, outCreated, rects, gptText >>

\* return { pdfBytes: await out.save(...), gptText: allText.trim(), warnings }
X_Save ==
  /\ fn = RebuildFn /\ pc = "x_page" /\ i = Len(doc)
  /\ result' = "returned"
  /\ gptText' = trim(texts)
  /\ pc' = "done"
  /\ UNCHANGED << rebuildVars, inputBytes, loadCalls, doc, outCreated, outPages, i, rects,
                  texts, warnings, error >>

RebuildNext == X_Normalize \/ X_Load \/ X_GetPage \/ X_Text \/ X_Save

SpecRebuild == InitRebuild /\ [][RebuildNext]_vars

\* ---- zone resolution invoked again, with the tuner at work in between.
\* Key-based resolution for page pageNumber of a document: what
\* redactPdfArrayBuffer fills on that page for templateKey.
KeyCalls ==
  { [resolver |-> "resolveTemplate", mode |-> k, pageIndex |-> n - 1, page |-> pg] :
      k \in TemplateKeys, n \in {1, 2}, pg \in BandPageKinds }

\* The zone list a call yields when the store holds st.
ZonesOf(c, st) ==
  IF c.resolver = "getRedactionRects"
    THEN getRedactionRects(c.mode, c.pageIndex, c.W, c.H)
  ELSE IF c.resolver = "computeRects"
    THEN computeRects(c.mode, c.pageIndex, c.W, c.H)
  ELSE IF c.resolver = "computeRedactionRects"
    THEN computeRedactionRects(c.mode, c.pageIndex, c.W, c.H, c.pageSizePt,
                               ZoneCfg(c.applyAllPages))
  ELSE BandRects(resolveTemplate(st, c.mode), c.pageIndex + 1,
                 BandCanvas(c.pageIndex + 1, c.page), BandScale(c.page))

InitPure ==
  /\ zin \in KeyCalls \cup { c \in ZoneCalls : c.pageIndex = 0 /\ c.W = LetterW * Twips }
  /\ zout = ZonePending /\ zfirst = ZonePending
  /\ store = NoStore /\ template = NoTemplate
  /\ NoCall

\* The call is made: the first answer is kept, the latest answer replaces the
\* one before.
P_Resolve ==
  /\ LET answer == ZoneAnswer(ZonesOf(zin, store)) IN
     /\ zout' = answer
     /\ zfirst' = IF zfirst.done THEN zfirst ELSE answer
  /\ UNCHANGED << argVars, runVars, zin, store, template >>

\* TemplateTuner.onSave: the measurements are saved for the key.
T_Save ==
  /\ \E k \in BandKeys, ov \in SavedOverrides : store' = [store EXCEPT ![k] = ov]
  /\ UNCHANGED << argVars, runVars, zin, zout, zfirst, template >>

\* TemplateTuner.onReset: the override of the key is removed.
T_Reset ==
  /\ \E k \in BandKeys : store' = [store EXCEPT ![k] = NoOverride]
  /\ UNCHANGED << argVars, runVars, zin, zout, zfirst, template >>

NextPure == P_Resolve \/ T_Save \/ T_Reset

SpecPure == InitPure /\ [][NextPure]_vars

\* ---- applyRedactionsToCanvas on one zone, anywhere around the raster.
PaintW == 100
PaintH == 80
PaintOrigins == {-30, 0, 40, PaintH, PaintW, PaintW + 30}
PaintExtents == {-5, 0, 20, PaintH - 20, PaintW, 2 * PaintW}

PaintCalls ==
  { [resolver |-> "applyRedactionsToCanvas", W |-> PaintW, H |-> PaintH,
     zone |-> Rect(x, y, w, h)] :
      x \in PaintOrigins, y \in PaintOrigins, w \in PaintExtents, h \in PaintExtents }

InitPaint ==
  /\ zin \in PaintCalls
  /\ zout = ZonePending /\ zfirst = ZonePending
  /\ store = NoStore /\ template = NoTemplate
  /\ NoCall

\* applyRedactionsToCanvas(ctx, [zone]) on a blank raster: the fillRect calls
\* it made and the raster it leaves.
P_applyRedactionsToCanvas ==
  /\ zin.resolver = "applyRedactionsToCanvas" /\ ~zout.done
  /\ LET blank == Canvas(1, zin.W, zin.H, 1) IN
     /\ zout' = ZoneAnswer(fillRectCalls(blank, << zin.zone >>))
     /\ canvas' = applyRedactionsToCanvas(blank, << zin.zone >>)
  /\ UNCHANGED << argVars, zin, zfirst, store, template, pc, inputBytes, loadCalls, doc,
                  pageSizes, worker, workersCreated, workersTerminated, ocrEnabled,
                  outCreated, outPages, i, renders, rects, ocrText, ocrTotalChars, texts,
                  warnings, ocrLog, result, error, gptText >>

SpecPaint == InitPaint /\ [][P_applyRedactionsToCanvas]_vars

\* ---- the writers of the invisible text layer on texts around the run length.
\* Texts are as long as MaxRuns runs and a bit.
MaxRuns == 2

Letter(k) ==
  CASE k % 7 = 0 -> "a" [] k % 7 = 1 -> "b" [] k % 7 = 2 -> "c" [] k % 7 = 3 -> "d"
    [] k % 7 = 4 -> "e" [] k % 7 = 5 -> "f" [] OTHER -> "g"

\* A recognized text of len characters.
TextOf(len) == [k \in 1..len |-> Letter(k)]

\* Lengths just under, at and over each multiple of the run length n.
TextLengths(n) ==
  { len \in { q * n + d : q \in 0..MaxRuns, d \in {-2, -1, 0, 1, 2, 10, 100, 1000, 1750, 3000} } :
      len >= 0 }

\* Texts recognition may give that hold no visible character.
BlankTexts == { <<" ">>, <<"\n">>, <<" ", "\n">>, <<"\n", "\n", " ">> }

WriterCalls ==
  { [resolver |-> w, n |-> IF w = "addInvisibleTextLayer" THEN CHUNK ELSE SecureChunk,
     text |-> t] :
      w \in {"addInvisibleTextLayer", "redactPdfBytesSecureOcr"},
      t \in { TextOf(len) : len \in TextLengths(CHUNK) \cup TextLengths(SecureChunk) }
              \cup BlankTexts }

InitChunks ==
  /\ zin \in WriterCalls
  /\ zout = ZonePending /\ zfirst = ZonePending
  /\ store = NoStore /\ template = NoTemplate
  /\ NoCall

\* The text layer is written: the runs drawn, in order.
W_Write ==
  /\ zin.resolver \in {"addInvisibleTextLayer", "redactPdfBytesSecureOcr"} /\ ~zout.done
  /\ zout' = ZoneAnswer(IF zin.resolver = "addInvisibleTextLayer"
                        THEN addInvisibleTextLayer(zin.text)
                        ELSE secureTextLayer(zin.text))
  /\ UNCHANGED << argVars, runVars, zin, zfirst, store, template >>

SpecChunks == InitChunks /\ [][W_Write]_vars

\* ---- normalizePdfBytes applied to its own output, as its callers do.
\* The inputs of the pipelines, and headers that are followed by an HTML marker.
NormalizeArgs ==
  InputArgs \cup { Bytes(p \o Pdf14 \o m) : p \in Prefixes, m \in {Html, Head_, <<"x">>} }

\* Who normalizes the normalized bytes again: the retry path of redactPdfBytes,
\* or redactPdfBytesWithText called by convertAnyToArtifacts.
NormalizeCallers == {"redactPdfBytes", "convertAnyToArtifacts"}

NormalizeCalls ==
  { [resolver |-> "normalizePdfBytes", caller |-> c, arg |-> a] :
      c \in NormalizeCallers, a \in NormalizeArgs }

InitNormalize ==
  /\ zin \in NormalizeCalls
  /\ zout = ZonePending /\ zfirst = ZonePending
  /\ store = NoStore /\ template = NoTemplate
  /\ NoCall

\* inputBytes = normalizePdfBytes(inputBytes); asPdfBytes = normalizePdfBytes(inputBytes)
N_Normalize ==
  /\ zin.resolver = "normalizePdfBytes" /\ ~zfirst.done
  /\ zfirst' = ZoneAnswer(normalizePdfBytes(zin.arg, DefaultMaxScanBytes))
  /\ UNCHANGED << argVars, runVars, zin, zout, store, template >>

\* normalizePdfBytes(inputBytes, { maxScanBytes: Math.min(16 MB, inputBytes.length) })
N_Retry ==
  /\ zin.resolver = "normalizePdfBytes" /\ zin.caller = "redactPdfBytes"
  /\ zfirst.done /\ zfirst.rects.ok /\ ~zout.done
  /\ zout' = ZoneAnswer(normalizePdfBytes(Bytes(zfirst.rects.out),
                                          Min(DefaultMaxScanBytes, Len(zfirst.rects.out))))
  /\ UNCHANGED << argVars, runVars, zin, zfirst, store, template >>

\* redactPdfBytesWithText(asPdfBytes, ...): inputBytes = normalizePdfBytes(inputBytes)
N_WithText ==
  /\ zin.resolver = "normalizePdfBytes" /\ zin.caller = "convertAnyToArtifacts"
  /\ zfirst.done /\ zfirst.rects.ok /\ ~zout.done
  /\ zout' = ZoneAnswer(normalizePdfBytes(Bytes(zfirst.rects.out), DefaultMaxScanBytes))
  /\ UNCHANGED << argVars, runVars, zin, zfirst, store, template >>

SpecNormalize == InitNormalize /\ [][N_Normalize \/ N_Retry \/ N_WithText]_vars

\* ---- convertAnyToArtifacts of part_010: a PDF, a wrapper that embeds one, an
\* image, or text.
PngSig == <<"0x89", "P", "N", "G", "\r", "\n", "0x1a", "\n">>
JpegSig == <<"0xff", "0xd8", "0xff">>

bytesStartWith(bytes, sig) == MatchAt(bytes, sig, 0)

sniffKind(arg) ==
  IF ~arg.given \/ Len(arg.bytes) < 4 THEN "unknown"
  ELSE IF bytesStartWith(arg.bytes, needle) THEN "pdf"
  ELSE IF bytesStartWith(arg.bytes, PngSig) THEN "png"
  ELSE IF bytesStartWith(arg.bytes, JpegSig) THEN "jpeg"
  ELSE LET headAscii == toLowerCase(Slice(arg.bytes, 0, Min(HeadLen, Len(arg.bytes)))) IN
       IF \E m \in HtmlMarkers : includes(headAscii, m) THEN "html" ELSE "unknown"

\* scrubTextBestEffort on the texts of the model, which hold no identifier label:
\* lines that are blank after trimming are dropped, the others are kept.
scrubTextBestEffort(raw) == IF trim(raw) = <<>> THEN <<>> ELSE raw

\* tryExtractEmbeddedPdfBytes: payload is what base64ToBytes gives of the first
\* data:application/pdf;base64 or JVBERi0 match in the wrapper, NoBytes when
\* nothing matches; a throw of normalizePdfBytes is caught and null returned.
tryExtractEmbeddedPdfBytes(payload) ==
  IF ~payload.given THEN NoBytes
  ELSE LET r == normalizePdfBytes(payload, DefaultMaxScanBytes) IN
       IF r.ok THEN Bytes(r.out) ELSE NoBytes

\* The files handed to convertAnyToArtifacts: the bytes, and the decoded payload
\* of an embedded PDF if the bytes hold one.
File(bytes, payload) == [arg |-> bytes, payload |-> payload]
ConvertFiles ==
  { File(Bytes(Pdf14), NoBytes),
    File(Bytes(<<"x">> \o Pdf17), NoBytes),
    File(Bytes(Html \o <<"d", "a", "t", "a", ":">>), Bytes(Pdf14)),
    File(Bytes(Html \o <<"d", "a", "t", "a", ":">>), Bytes(<<"x", "x", "x", "x", "x">>)),
    File(Bytes(PngSig \o <<"x">>), NoBytes),
    File(Bytes(JpegSig \o <<"x">>), NoBytes),
    File(Bytes(Html), NoBytes),
    File(Bytes(<<"n", "o", "t", "e", "s">>), NoBytes),
    File(NoBytes, NoBytes) }

\* The pixel sizes of the decoded images.
BitmapSizes == { [w |-> PaintW, h |-> PaintH], [w |-> PaintH + 1, h |-> PaintW + 1] }

ConvertCalls ==
  { [resolver |-> ConvertFn, file |-> f, bitmap |-> b] :
      f \in ConvertFiles, b \in BitmapSizes }

InitConvert ==
  /\ zin \in { c \in ConvertCalls :
                 sniffKind(c.file.arg) \notin {"png", "jpeg"} => c.bitmap.w = PaintW }
  /\ zout = ZonePending /\ zfirst = ZonePending
  /\ store = NoStore /\ template = NoTemplate
  /\ fn = ConvertFn /\ inputBytes = zin.file.arg
  /\ mode \in {SURGERY_CENTER, NO_CHARGE}
  /\ opts \in { [NoOpts EXCEPT !.includeOcr = oc] : oc \in {"unset", "false"} }
  /\ env \in { Env(a, "agrees") : a \in {"reachable", "missing"} }
  /\ InitRun

\* cfg = { applyAllPages: mode === NO_CHARGE, includeOcr: true, renderScale: 2.5, ...opts }
ConvertCfg ==
  [ applyAllPages |-> Opt(opts.applyAllPages, mode = NO_CHARGE),
    includeOcr |-> Opt(opts.includeOcr, TRUE),
    renderScaleQ |-> ConvertScaleQ,
    surgeryTopCm |-> DefaultSurgeryTopCm,
    alsoRedactFooter |-> TRUE ]

\* An option of a cfg object that is passed on as opts.
Passed(b) == IF b THEN "true" ELSE "false"

convertVars == << zin, zout, zfirst, store, template, mode, env >>

\* Steps 1 to 4 up to the first await: try the bytes as a PDF, then as a wrapper
\* of one, and call redactPdfBytesWithText(asPdfBytes, mode, cfg); else sniff the
\* kind: an image goes on to the OCR worker or straight to the output document,
\* anything else is returned as scrubbed text with pdfBytes null.
V_Detect ==
  /\ fn = ConvertFn /\ pc = "start"
  /\ LET r == normalizePdfBytes(inputBytes, DefaultMaxScanBytes)
         asPdfBytes == IF r.ok THEN Bytes(r.out)
                       ELSE tryExtractEmbeddedPdfBytes(zin.file.payload)
         kind == sniffKind(inputBytes)
     IN IF asPdfBytes.given
        THEN /\ fn' = "redactPdfBytesWithText"
             /\ inputBytes' = asPdfBytes
             /\ opts' = [opts EXCEPT !.applyAllPages = Passed(ConvertCfg.applyAllPages),
                                     !.includeOcr = Passed(ConvertCfg.includeOcr)]
             /\ UNCHANGED << pc, warnings, result, gptText, error >>
        ELSE IF kind \in {"png", "jpeg"}
        THEN /\ warnings' = IF ConvertCfg.includeOcr THEN warnings
                            ELSE Append(warnings, "Image input processed without OCR")
             /\ IF ~ConvertCfg.includeOcr
                THEN pc' = "v_canvas" /\ UNCHANGED << result, error >>
                ELSE IF assertOcrAssetsPresent(env.assets)
                THEN pc' = "v_worker" /\ UNCHANGED << result, error >>
                ELSE Throw(AssetsError)
             /\ UNCHANGED << fn, inputBytes, opts, gptText >>
        ELSE /\ warnings' = Append(warnings, "Input was not a renderable PDF/image")
             /\ gptText' = IF inputBytes.given THEN scrubTextBestEffort(inputBytes.bytes) ELSE <<>>
             /\ result' = "returned"
             /\ pc' = "done"
             /\ UNCHANGED << fn, inputBytes, opts, error >>
  /\ UNCHANGED << convertVars, loadCalls, doc, pageSizes, worker, workersCreated,
                  workersTerminated, ocrEnabled, outCreated, outPages, i, renders,
                  canvas, rects, ocrText, ocrTotalChars, texts, ocrLog >>

\* worker = await createWorker(...); loadLanguage; initialize
V_Worker ==
  /\ fn = ConvertFn /\ pc = "v_worker"
  /\ \/ /\ worker' = "worker"
        /\ workersCreated' = workersCreated + 1
        /\ pc' = "v_canvas"
        /\ UNCHANGED << result, error >>
     \/ /\ Throw("createWorker/loadLanguage/initialize rejected")
        /\ UNCHANGED << worker, workersCreated >>
  /\ UNCHANGED << convertVars, fn, opts, inputBytes, loadCalls, doc, pageSizes,
                  workersTerminated, ocrEnabled, outCreated, outPages, i, renders,
                  canvas, rects, ocrText, ocrTotalChars, texts, warnings, ocrLog, gptText >>

\* outPdf = await PDFDocument.create(); bitmap = await createImageBitmap(blob);
\* the canvas of ceil(bitmap * renderScale) pixels with the bitmap drawn on it.
V_Canvas ==
  /\ fn = ConvertFn /\ pc = "v_canvas"
  /\ \/ /\ outCreated' = TRUE
        /\ canvas' = Canvas(1, Ceil(zin.bitmap.w * ConvertCfg.renderScaleQ, ScaleDen),
                            Ceil(zin.bitmap.h * ConvertCfg.renderScaleQ, ScaleDen), 1)
        /\ pc' = "v_paint"
        /\ UNCHANGED << result, error >>
     \/ /\ Throw("createImageBitmap rejected")
        /\ UNCHANGED << outCreated, canvas >>
  /\ UNCHANGED << convertVars, fn, opts, inputBytes, loadCalls, doc, pageSizes, worker,
                  workersCreated, workersTerminated, ocrEnabled, outPages, i, renders,
                  rects, ocrText, ocrTotalChars, texts, warnings, ocrLog, gptText >>

\* redactCanvasToPdfAndText up to its recognize call: the zones of page index 0
\* are painted, the raster is embedded and drawn on a page of pageSizePt.
V_Paint ==
  /\ fn = ConvertFn /\ pc = "v_paint"
  /\ LET pageSizePt == PtSize(canvas.w, canvas.h)
         rs == computeRedactionRects(mode, 0, canvas.w, canvas.h, pageSizePt, ConvertCfg)
         painted == applyRedactionsToCanvas(canvas, rs)
     IN \/ /\ rects' = rs
           /\ canvas' = painted
           /\ outPages' = Append(outPages, OutPage(painted, pageSizePt, <<>>))
           /\ pc' = IF ConvertCfg.includeOcr /\ worker = "worker" THEN "v_ocr" ELSE "v_save"
           /\ UNCHANGED << result, error >>
        \/ /\ Throw("embedPng rejected")
           /\ UNCHANGED << rects, canvas, outPages >>
  /\ UNCHANGED << convertVars, fn, opts, inputBytes, loadCalls, doc, pageSizes, worker,
                  workersCreated, workersTerminated, ocrEnabled, outCreated, i, renders,
                  ocrText, ocrTotalChars, texts, warnings, ocrLog, gptText >>

\* result = await worker.recognize(dataUrl); text = (result?.data?.text || '').trim();
\* if (text) await addInvisibleTextLayer(page, font, text); return text
V_Ocr ==
  /\ fn = ConvertFn /\ pc = "v_ocr"
  /\ ocrLog' = Append(ocrLog, OcrCall(1, canvas))
  /\ \/ \E raw \in OcrTexts :
          LET text == trim(raw) IN
          /\ ocrText' = text
          /\ outPages' = IF text # <<>>
                         THEN [outPages EXCEPT ![Len(outPages)].text = addInvisibleTextLayer(text)]
                         ELSE outPages
          /\ pc' = "v_save"
          /\ UNCHANGED << result, error >>
     \/ /\ Throw("recognize rejected")
        /\ UNCHANGED << ocrText, outPages >>
  /\ UNCHANGED << convertVars, fn, opts, inputBytes, loadCalls, doc, pageSizes, worker,
                  workersCreated, workersTerminated, ocrEnabled, outCreated, i, renders,
                  canvas, rects, ocrTotalChars, texts, warnings, gptText >>

\* try{ await worker?.terminate() }catch{}; pdfBytes = await outPdf.save(...);
\* return { pdfBytes, gptText: ocrText || '', warnings }
V_Save ==
  /\ fn = ConvertFn /\ pc = "v_save"
  /\ IF worker = "worker"
     THEN \/ workersTerminated' = workersTerminated + 1
          \/ UNCHANGED workersTerminated
     ELSE UNCHANGED workersTerminated
  /\ gptText' = ocrText
  /\ result' = "returned"
  /\ pc' = "done"
  /\ UNCHANGED << convertVars, fn, opts, inputBytes, loadCalls, doc, pageSizes, worker,
                  workersCreated, ocrEnabled, outCreated, outPages, i, renders,
                  canvas, rects, ocrText, ocrTotalChars, texts, warnings, ocrLog, error >>

\* convertAnyToArtifacts, the steps of redactPdfBytesWithText being those of the
\* burn-in pipeline; what redactPdfBytesWithText returns or throws is what
\* convertAnyToArtifacts returns or throws (gptText || '' of a string is itself).
ConvertNext ==
  \/ V_Detect \/ V_Worker \/ V_Canvas \/ V_Paint \/ V_Ocr \/ V_Save
  \/ B_Normalize \/ B_Load \/ B_Sizes \/ B_Assets \/ B_CreateWorker
  \/ B_InitWorker \/ B_Create \/ B_Render \/ B_Paint \/ B_Embed \/ B_Ocr
  \/ B_Terminate \/ B_Gate

SpecConvert == InitConvert /\ [][ConvertNext]_vars

\* ---- batch export: exportBatchZip of App.jsx and of part_006, and the click
\* handler of exportZipBtn in phi_redactor_static/app.js.
\* The most files of one selection.
MaxFiles == 3

BatchImpls == {"App.jsx", "part_006", "app.js"}

\* What processing one file gives: a throw, or the artifacts returned.
Art(pdf, text, warn) == [threw |-> FALSE, pdfBytes |-> pdf, gptText |-> text, warnings |-> warn]
ThrewArt == [threw |-> TRUE, pdfBytes |-> FALSE, gptText |-> FALSE, warnings |-> FALSE]

\* convertAnyToArtifacts returns a PDF with text, a PDF alone (OCR off, or an
\* image without recognizable text), a PDF with a warning (image, OCR off),
\* scrubbed text with a warning, or no text with a warning; redactPdfBytes
\* returns the PDF bytes; processOneFile returns a PDF and its text.
Outcomes(impl) ==
  IF impl = "App.jsx"
  THEN { ThrewArt, Art(TRUE, TRUE, FALSE), Art(TRUE, FALSE, FALSE), Art(TRUE, FALSE, TRUE),
         Art(FALSE, TRUE, TRUE), Art(FALSE, FALSE, TRUE) }
  ELSE IF impl = "part_006" THEN { ThrewArt, Art(TRUE, FALSE, FALSE) }
  ELSE { ThrewArt, Art(TRUE, TRUE, FALSE) }

RECURSIVE SeqsTo(_, _)
\* The sequences over S of length 0..n.
SeqsTo(S, n) ==
  IF n = 0 THEN { <<>> }
  ELSE LET shorter == SeqsTo(S, n - 1) IN
       shorter \cup { Append(q, x) : q \in shorter, x \in S }

BatchCalls ==
  { [resolver |-> "exportBatchZip", impl |-> m, files |-> fs] :
      m \in BatchImpls, fs \in UNION { SeqsTo(Outcomes(mm), MaxFiles) : mm \in BatchImpls } }

\* An entry of the ZIP: the file it was made from (0 for the batch report) and its kind.
ZipEntry(k, kind) == [file |-> k, kind |-> kind]

\* The export's state: where it stands, the files processed so far in order, the
\* ZIP, the failures and the report in order, and what was downloaded.
BatchIdle ==
  [ at |-> "idle", busy |-> FALSE, processed |-> <<>>, zip |-> {}, failures |-> <<>>,
    report |-> <<>>, okCount |-> 0, downloaded |-> FALSE, status |-> "" ]

InitBatch ==
  /\ zin \in { c \in BatchCalls : \A k \in 1..Len(c.files) : c.files[k] \in Outcomes(c.impl) }
  /\ zout = BatchIdle
  /\ zfirst = ZonePending
  /\ store = NoStore /\ template = NoTemplate
  /\ NoCall

\* The click: if (!hasValid) return; setBusy(true); zip = new JSZip(); failures = []
\* (app.js: if (!currentFiles.length) return; exportZipBtn.disabled = true).
E_Start ==
  /\ zin.resolver = "exportBatchZip" /\ zout.at = "idle" /\ ~zout.busy
  /\ zout' = IF Len(zin.files) = 0
             THEN [zout EXCEPT !.at = "done",
                               !.status = IF zin.impl = "app.js" THEN "Choose files first." ELSE ""]
             ELSE [zout EXCEPT !.at = "loop", !.busy = TRUE]
  /\ UNCHANGED << argVars, runVars, zin, zfirst, store, template >>

\* What one file adds to the ZIP in App.jsx.
ArtifactsOf(k, art) ==
  (IF art.pdfBytes THEN { ZipEntry(k, "pdf") } ELSE {})
    \cup (IF art.gptText THEN { ZipEntry(k, "gpt") } ELSE {})
    \cup (IF art.warnings THEN { ZipEntry(k, "warnings") } ELSE {})

\* One turn of the for loop: the file is read and processed inside try/catch.
E_File ==
  /\ zin.resolver = "exportBatchZip" /\ zout.at = "loop"
  /\ Len(zout.processed) < Len(zin.files)
  /\ LET k == Len(zout.processed) + 1
         art == zin.files[k]
         seen == [zout EXCEPT !.processed = Append(@, k)]
     IN zout' =
          IF zin.impl = "App.jsx"
          THEN IF art.threw THEN [seen EXCEPT !.failures = Append(@, k)]
               ELSE [seen EXCEPT !.zip = @ \cup ArtifactsOf(k, art),
                                 !.failures = IF ~art.pdfBytes /\ ~art.gptText
                                              THEN Append(@, k) ELSE @]
          ELSE IF zin.impl = "part_006"
          THEN IF art.threw THEN [seen EXCEPT !.failures = Append(@, k)]
               ELSE [seen EXCEPT !.zip = @ \cup { ZipEntry(k, "pdf") }]
          ELSE IF art.threw THEN [seen EXCEPT !.report = Append(@, <<"FAIL", k>>)]
               ELSE [seen EXCEPT !.zip = @ \cup { ZipEntry(k, "pdf"), ZipEntry(k, "gpt") },
                                 !.report = Append(@, <<"OK", k>>),
                                 !.okCount = @ + 1]
  /\ UNCHANGED << argVars, runVars, zin, zfirst, store, template >>

\* After the loop: an empty ZIP throws into the outer catch (app.js: okCount 0
\* returns after the report was added); else the ZIP is generated and saved, or
\* generateAsync rejects; finally setBusy(false).
E_Finish ==
  /\ zin.resolver = "exportBatchZip" /\ zout.at = "loop"
  /\ Len(zout.processed) = Len(zin.files)
  /\ LET zip == IF zin.impl = "app.js" THEN zout.zip \cup { ZipEntry(0, "report") } ELSE zout.zip
         nothing == IF zin.impl = "app.js" THEN zout.okCount = 0 ELSE zip = {}
         ended == [zout EXCEPT !.at = "done", !.zip = zip]
     IN IF nothing
        THEN zout' = [ended EXCEPT !.busy = FALSE, !.status = "No files exported."]
        ELSE \/ zout' = [ended EXCEPT !.busy = FALSE, !.downloaded = TRUE,
                                      !.status = "Batch export complete"]
             \/ zout' = [ended EXCEPT !.busy = (zin.impl = "app.js"),
                                      !.status = "generateAsync rejected"]
  /\ UNCHANGED << argVars, runVars, zin, zfirst, store, template >>

SpecBatch == InitBatch /\ [][E_Start \/ E_File \/ E_Finish]_vars

\* ---- App.jsx: the export buttons and the busy flag.
\* The most exports one behaviour starts.
MaxExports == 3

\* canExport = hasValid && !busy, with the busy flag ignored.
canExport_IgnoreBusy(hasValid, busy) == hasValid

\* const canExport = hasValid && !busy
canExport(hasValid, busy) == hasValid /\ ~busy

\* The component: its state (the valid items, busy, status), the state of the
\* last render (which the buttons' disabled attributes and the handlers'
\* closures show), and every export started so far: its kind, where it stands,
\* and what busy was when it started.
AppIdle ==
  [ hasValid |-> FALSE, busy |-> FALSE, status |-> "Upload",
    shown |-> [hasValid |-> FALSE, busy |-> FALSE],
    exports |-> <<>> ]

Export(kind, busyAtStart) == [kind |-> kind, at |-> "read", busyAtStart |-> busyAtStart]

InitExport ==
  /\ zin = [resolver |-> "App"]
  /\ zout = AppIdle
  /\ zfirst = ZonePending
  /\ store = NoStore /\ template = NoTemplate
  /\ NoCall

\* React commits the state: the buttons and the closures are those of it.
U_Render ==
  /\ zin.resolver = "App"
  /\ zout.shown # [hasValid |-> zout.hasValid, busy |-> zout.busy]
  /\ zout' = [zout EXCEPT !.shown = [hasValid |-> zout.hasValid, busy |-> zout.busy]]
  /\ UNCHANGED << argVars, runVars, zin, zfirst, store, template >>

\* onPick has preflighted the picked files: setFileItems(items), or an empty pick.
\* The file input is never disabled.
U_Pick ==
  /\ zin.resolver = "App"
  /\ \E some \in BOOLEAN :
       zout' = [zout EXCEPT !.hasValid = some,
                            !.status = IF some THEN "Loaded" ELSE "No files selected."]
  /\ UNCHANGED << argVars, runVars, zin, zfirst, store, template >>

\* The Clear button, disabled while busy is shown.
U_Clear ==
  /\ zin.resolver = "App" /\ ~zout.shown.busy
  /\ zout' = [zout EXCEPT !.hasValid = FALSE, !.status = "Cleared."]
  /\ UNCHANGED << argVars, runVars, zin, zfirst, store, template >>

\* A click on an export button, possible while the button is not disabled:
\* exportSingle (if (!first) return) or exportBatchZip (if (!hasValid) return),
\* then setBusy(true).  The update of a click handler is committed before the
\* next event is dispatched.
U_Export ==
  /\ zin.resolver = "App"
  /\ canExport(zout.shown.hasValid, zout.shown.busy)
  /\ Len(zout.exports) < MaxExports
  /\ \E kind \in {"exportSingle", "exportBatchZip"} :
       zout' = [zout EXCEPT !.exports = Append(@, Export(kind, zout.busy)),
                            !.busy = TRUE,
                            !.shown = [hasValid |-> zout.hasValid, busy |-> TRUE]]
  /\ UNCHANGED << argVars, runVars, zin, zfirst, store, template >>

\* An await of a running export resolves and the export goes on to its next
\* await: the file's bytes, convertAnyToArtifacts, zip.generateAsync.
U_ExportStep ==
  /\ zin.resolver = "App"
  /\ \E k \in 1..Len(zout.exports) :
       /\ zout.exports[k].at \in {"read", "convert"}
       /\ zout' = [zout EXCEPT !.exports[k].at = IF @ = "read" THEN "convert" ELSE "save"]
  /\ UNCHANGED << argVars, runVars, zin, zfirst, store, template >>

\* A running export ends: its last await resolves and the download is saved, or
\* any await rejects (or nothing exportable was produced) and the catch sets the
\* status; finally setBusy(false).
U_ExportEnd ==
  /\ zin.resolver = "App"
  /\ \E k \in 1..Len(zout.exports) :
       /\ zout.exports[k].at \in {"read", "convert", "save"}
       /\ \E st \in (IF zout.exports[k].at = "save" THEN {"Exported"} ELSE {}) \cup {"Export error"} :
            zout' = [zout EXCEPT !.exports[k].at = "ended", !.status = st, !.busy = FALSE]
  /\ UNCHANGED << argVars, runVars, zin, zfirst, store, template >>

ExportNext == U_Render \/ U_Pick \/ U_Clear \/ U_Export \/ U_ExportStep \/ U_ExportEnd

SpecExport == InitExport /\ [][ExportNext]_vars

\* ---- App.jsx: the preview effect on [sourceBytes, mode, applyAllPages].
\* The most preview runs one behaviour starts.
MaxPreviewRuns == 3
\* renderFirstPageToCanvas(bytes, canvas, 1.25), in quarters.
PreviewScaleQ == 5

\* The first pages of the documents that can be picked; NoSource is sourceBytes null.
NoSource == Page(0, 0, 0)
PreviewSources == { Page(LetterW, LetterH, 0), Page(LetterW, LetterH, 90) }

\* The canvas as renderFirstPageToCanvas sizes it: floor(viewport * scale).
PreviewCanvas(src) ==
  Canvas(src, (Viewport(src).width * PreviewScaleQ) \div ScaleDen,
         (Viewport(src).height * PreviewScaleQ) \div ScaleDen, 1)

\* The zones the effect computes for page index 0 of a source.
PreviewRects(src, m, ap) ==
  LET c == PreviewCanvas(src) IN
  computeRedactionRects(m, 0, c.w, c.h, getSize(src),
                        [applyAllPages |-> ap, surgeryTopCm |-> DefaultSurgeryTopCm,
                         alsoRedactFooter |-> TRUE])

\* drawPreviewRects: every rectangle is filled and stroked on what the canvas shows.
drawPreviewRects(c, rs) == [c EXCEPT !.fills = @ \cup { rs[j] : j \in 1..Len(rs) }]

\* A run of the effect: the inputs its closure holds, the await it stands at,
\* and the cancelled flag its cleanup sets.
PreviewRun(src, m, ap) ==
  [sourceBytes |-> src, mode |-> m, applyAllPages |-> ap, at |-> "load", cancelled |-> FALSE]

PreviewIdle ==
  [ sourceBytes |-> NoSource, mode |-> NO_CHARGE, applyAllPages |-> TRUE,
    previewBusy |-> FALSE, status |-> "Upload", canvas |-> NoCanvas, runs |-> <<>> ]

InitPreview ==
  /\ zin = [resolver |-> "App preview"]
  /\ zout = PreviewIdle
  /\ zfirst = ZonePending
  /\ store = NoStore /\ template = NoTemplate
  /\ NoCall

\* The effect after a commit that changed a dependency: the cleanup of the
\* previous run sets its cancelled flag; the new run returns at once without
\* sourceBytes, else calls setPreviewBusy(true) and awaits getDocument.
RunEffect(s) ==
  LET stopped == IF s.runs = <<>> THEN s.runs
                 ELSE [s.runs EXCEPT ![Len(s.runs)].cancelled = TRUE]
  IN IF s.sourceBytes = NoSource THEN [s EXCEPT !.runs = stopped]
     ELSE [s EXCEPT !.runs = Append(stopped, PreviewRun(s.sourceBytes, s.mode, s.applyAllPages)),
                    !.previewBusy = TRUE]

\* onPick ends with setSourceBytes(bytes) of the first PDF, or null without one.
Q_Pick ==
  /\ zin.resolver = "App preview" /\ Len(zout.runs) < MaxPreviewRuns
  /\ \E src \in PreviewSources \cup {NoSource} :
       /\ src # zout.sourceBytes
       /\ zout' = RunEffect([zout EXCEPT !.sourceBytes = src, !.status = "Loaded"])
  /\ UNCHANGED << argVars, runVars, zin, zfirst, store, template >>

\* clearAll: setFileItems([]); setSourceBytes(null); setStatus('Cleared...')
Q_Clear ==
  /\ zin.resolver = "App preview" /\ zout.sourceBytes # NoSource
  /\ zout' = RunEffect([zout EXCEPT !.sourceBytes = NoSource, !.status = "Cleared."])
  /\ UNCHANGED << argVars, runVars, zin, zfirst, store, template >>

\* A mode button: setMode(m).  After the commit the preview effect runs with the
\* new mode, and the defaults effect sets applyAllPages to m === NO_CHARGE; if
\* that changes it, the next commit runs the preview effect again.
Q_SetMode ==
  /\ zin.resolver = "App preview" /\ Len(zout.runs) + 1 < MaxPreviewRuns
  /\ \E m \in {NO_CHARGE, SURGERY_CENTER} :
       /\ m # zout.mode
       /\ LET first == RunEffect([zout EXCEPT !.mode = m]) IN
          zout' = IF first.applyAllPages = (m = NO_CHARGE) THEN first
                  ELSE RunEffect([first EXCEPT !.applyAllPages = (m = NO_CHARGE)])
  /\ UNCHANGED << argVars, runVars, zin, zfirst, store, template >>

\* The checkbox: setApplyAllPages(e.target.checked)
Q_SetApplyAllPages ==
  /\ zin.resolver = "App preview" /\ Len(zout.runs) < MaxPreviewRuns
  /\ zout' = RunEffect([zout EXCEPT !.applyAllPages = ~@])
  /\ UNCHANGED << argVars, runVars, zin, zfirst, store, template >>

\* finally { if (!cancelled) setPreviewBusy(false) }
Settle(s, k) ==
  [s EXCEPT !.runs[k].at = "settled",
            !.previewBusy = IF s.runs[k].cancelled THEN @ ELSE FALSE]

\* An await of a run resolves.  After getDocument and getPage the canvas is
\* resized (which clears it) and page.render starts; after page.render the
\* page's pixels are on the canvas, the zones of the run's closure are drawn,
\* and the run settles.  No step looks at cancelled before it draws.  What
\* another run drew while this render was under way is painted over by it or
\* not, as the two renders happened to interleave.
Q_Resolve ==
  /\ zin.resolver = "App preview"
  /\ \E k \in 1..Len(zout.runs) :
       LET run == zout.runs[k] IN
       /\ run.at \in {"load", "page", "render"}
       /\ IF run.at = "load" THEN zout' = [zout EXCEPT !.runs[k].at = "page"]
          ELSE IF run.at = "page"
          THEN zout' = [zout EXCEPT !.runs[k].at = "render",
                                    !.canvas = [PreviewCanvas(run.sourceBytes)
                                                  EXCEPT !.page = NoSource]]
          ELSE \E kept \in {zout.canvas.fills, {}} :
                 zout' = Settle([zout EXCEPT
                                   !.canvas = drawPreviewRects(
                                                [@ EXCEPT !.page = run.sourceBytes,
                                                          !.fills = kept],
                                                PreviewRects(run.sourceBytes, run.mode,
                                                             run.applyAllPages))], k)
  /\ UNCHANGED << argVars, runVars, zin, zfirst, store, template >>

\* An await of a run rejects: catch { if (!cancelled) setStatus('Preview error') }
\* and the finally block.
Q_Reject ==
  /\ zin.resolver = "App preview"
  /\ \E k \in 1..Len(zout.runs) :
       /\ zout.runs[k].at \in {"load", "page", "render"}
       /\ zout' = Settle([zout EXCEPT !.status = IF zout.runs[k].cancelled THEN @
                                                 ELSE "Preview error"], k)
  /\ UNCHANGED << argVars, runVars, zin, zfirst, store, template >>

PreviewNext ==
  Q_Pick \/ Q_Clear \/ Q_SetMode \/ Q_SetApplyAllPages \/ Q_Resolve \/ Q_Reject

SpecPreview == InitPreview /\ [][PreviewNext]_vars

\* ---- TemplateTuner (the component that follows pxFromInches in inchUtils.js):
\* the debounced preview effect.
\* The most preview runs one behaviour schedules.
MaxTunerRuns == 3
\* The page counts of the sample file.
SamplePages == {1, 2}

\* A run of the effect: the inches of its closure, where it stands ("timer"
\* before the timeout fires), the cancelled flag, and whether it updated the
\* panes or the state after it was cancelled.
TunerRun(top) == [topFirst |-> top, at |-> "timer", cancelled |-> FALSE, late |-> FALSE]

TunerIdle ==
  [ open |-> TRUE, topFirst |-> 0, loading |-> FALSE, hasPage2 |-> FALSE,
    status |-> "", errMsg |-> "", p1 |-> 0, p2 |-> 0, runs |-> <<>> ]

InitTuner ==
  /\ zin \in { [resolver |-> "TemplateTuner", numPages |-> n] : n \in SamplePages }
  /\ zout = [TunerIdle EXCEPT !.runs = << TunerRun(0) >>]
  /\ zfirst = ZonePending
  /\ store = NoStore /\ template = NoTemplate
  /\ NoCall

\* The effect after a commit that changed a dependency: the cleanup sets
\* cancelled and clears the timer of the previous run, then
\* t = setTimeout(go, 250) schedules the next.
Reschedule(s) ==
  [s EXCEPT !.runs = Append([s.runs EXCEPT ![Len(s.runs)].cancelled = TRUE],
                            TunerRun(s.topFirst))]

\* A slider or number field: setTopFirst(e.target.value)
G_Change ==
  /\ zin.resolver = "TemplateTuner" /\ zout.open /\ Len(zout.runs) < MaxTunerRuns
  /\ zout' = Reschedule([zout EXCEPT !.topFirst = @ + 1])
  /\ UNCHANGED << argVars, runVars, zin, zfirst, store, template >>

\* The dialog is closed: open becomes false.
G_Close ==
  /\ zin.resolver = "TemplateTuner" /\ zout.open /\ Len(zout.runs) < MaxTunerRuns
  /\ zout' = Reschedule([zout EXCEPT !.open = FALSE])
  /\ UNCHANGED << argVars, runVars, zin, zfirst, store, template >>

\* The timeout of a run fires, which a cleared timer never does: go() returns
\* if the dialog is closed, else sets loading, clears the error, sets the status
\* and hasPage2, and awaits sampleFile.arrayBuffer().
G_Fire ==
  /\ zin.resolver = "TemplateTuner"
  /\ \E k \in 1..Len(zout.runs) :
       /\ zout.runs[k].at = "timer" /\ ~zout.runs[k].cancelled
       /\ zout' = IF ~zout.open THEN [zout EXCEPT !.runs[k].at = "settled"]
                  ELSE [zout EXCEPT !.runs[k].at = "buf", !.loading = TRUE, !.errMsg = "",
                                    !.status = "Rendering preview...", !.hasPage2 = FALSE]
  /\ UNCHANGED << argVars, runVars, zin, zfirst, store, template >>

\* finally { if (!cancelled) setLoading(false) }
TunerSettle(s, k) ==
  [s EXCEPT !.runs[k].at = "settled",
            !.loading = IF s.runs[k].cancelled THEN @ ELSE FALSE]

\* An await of a run resolves: the bytes, the document, the canvas of page 1,
\* the canvas of page 2.  After each canvas: if (cancelled) return; else the
\* bands are drawn and the canvas is put into its pane.
G_Resolve ==
  /\ zin.resolver = "TemplateTuner"
  /\ \E k \in 1..Len(zout.runs) :
       LET run == zout.runs[k] IN
       /\ run.at \in {"buf", "doc", "p1", "p2"}
       /\ zout' =
            IF run.at = "buf" THEN [zout EXCEPT !.runs[k].at = "doc"]
            ELSE IF run.at = "doc" THEN [zout EXCEPT !.runs[k].at = "p1"]
            ELSE IF run.cancelled THEN TunerSettle(zout, k)
            ELSE IF run.at = "p1"
            THEN IF zin.numPages >= 2
                 THEN [zout EXCEPT !.runs[k].at = "p2", !.p1 = k]
                 ELSE TunerSettle([zout EXCEPT !.p1 = k, !.p2 = 0, !.hasPage2 = FALSE,
                                               !.status = "Preview ready."], k)
            ELSE TunerSettle([zout EXCEPT !.p2 = k, !.hasPage2 = TRUE,
                                          !.status = "Preview ready."], k)
  /\ UNCHANGED << argVars, runVars, zin, zfirst, store, template >>

\* An await of a run rejects: catch (e) { setErrMsg(...); setStatus("Preview
\* failed.") } and the finally block.
G_Reject ==
  /\ zin.resolver = "TemplateTuner"
  /\ \E k \in 1..Len(zout.runs) :
       /\ zout.runs[k].at \in {"buf", "doc", "p1", "p2"}
       /\ zout' = TunerSettle([zout EXCEPT !.errMsg = "rejected", !.status = "Preview failed.",
                                           !.runs[k].late = zout.runs[k].cancelled], k)
  /\ UNCHANGED << argVars, runVars, zin, zfirst, store, template >>

TunerNext == G_Change \/ G_Close \/ G_Fire \/ G_Resolve \/ G_Reject

SpecTuner == InitTuner /\ [][TunerNext]_vars

\* ---- secureExport.js: the memoized OCR worker across calls of
\* redactPdfBytesSecureOcr.
\* The most calls of one behaviour.
MaxCalls == 3

\* getTesseractWorker without the test of _tessWorkerPromise.
getTesseractWorker_NoMemo(memo, made) == made + 1

\* getTesseractWorker: the promise in _tessWorkerPromise if there is one (memo is
\* its number, 0 for null), else a new one, the next after those made so far.
getTesseractWorker(memo, made) == IF memo # 0 THEN memo ELSE made + 1

\* A call of redactPdfBytesSecureOcr: cfg.ocr, the await it stands at, the
\* promise getTesseractWorker gave it, and how it saw that promise settle.
SecureCall(ocr) == [ocr |-> ocr, at |-> "getDocument", awaits |-> 0, saw |-> "none"]

\* The module: _tessWorkerPromise, the worker promises made so far with their
\* states, and the calls.
ModuleLoaded == [memo |-> 0, promises |-> <<>>, calls |-> <<>>]

InitWorker ==
  /\ zin = [resolver |-> "getTesseractWorker"]
  /\ zout = ModuleLoaded
  /\ zfirst = ZonePending
  /\ store = NoStore /\ template = NoTemplate
  /\ NoCall

\* redactPdfBytesSecureOcr is called, whether or not earlier calls have ended,
\* and awaits getDocument.
K_Call ==
  /\ zin.resolver = "getTesseractWorker" /\ Len(zout.calls) < MaxCalls
  /\ \E ocr \in BOOLEAN : zout' = [zout EXCEPT !.calls = Append(@, SecureCall(ocr))]
  /\ UNCHANGED << argVars, runVars, zin, zfirst, store, template >>

\* getDocument resolves and PDFDocument.create() is awaited, or it rejects.
K_Load ==
  /\ zin.resolver = "getTesseractWorker"
  /\ \E k \in 1..Len(zout.calls) :
       /\ zout.calls[k].at = "getDocument"
       /\ \E next \in {"create", "threw"} : zout' = [zout EXCEPT !.calls[k].at = next]
  /\ UNCHANGED << argVars, runVars, zin, zfirst, store, template >>

\* const tess = cfg.ocr ? await getTesseractWorker() : null.  The test of
\* _tessWorkerPromise and its assignment run without an await between them.
K_GetWorker ==
  /\ zin.resolver = "getTesseractWorker"
  /\ \E k \in 1..Len(zout.calls) :
       /\ zout.calls[k].at = "create"
       /\ IF ~zout.calls[k].ocr THEN zout' = [zout EXCEPT !.calls[k].at = "pages"]
          ELSE LET p == getTesseractWorker(zout.memo, Len(zout.promises)) IN
               zout' = [zout EXCEPT !.memo = p,
                                    !.promises = IF p > Len(@) THEN Append(@, "pending") ELSE @,
                                    !.calls[k].at = "worker",
                                    !.calls[k].awaits = p]
  /\ UNCHANGED << argVars, runVars, zin, zfirst, store, template >>

\* A worker promise settles: import, createWorker, loadLanguage and initialize
\* all resolved, or one of them rejected.
K_Settle ==
  /\ zin.resolver = "getTesseractWorker"
  /\ \E p \in 1..Len(zout.promises) :
       /\ zout.promises[p] = "pending"
       /\ \E how \in {"fulfilled", "rejected"} : zout' = [zout EXCEPT !.promises[p] = how]
  /\ UNCHANGED << argVars, runVars, zin, zfirst, store, template >>

\* A call's await of the worker promise ends: with the worker, and the call
\* goes on to its pages, or with the rejection, which the call rethrows.
K_Await ==
  /\ zin.resolver = "getTesseractWorker"
  /\ \E k \in 1..Len(zout.calls) :
       LET how == zout.promises[zout.calls[k].awaits] IN
       /\ zout.calls[k].at = "worker"
       /\ how # "pending"
       /\ zout' = [zout EXCEPT !.calls[k].saw = how,
                               !.calls[k].at = IF how = "fulfilled" THEN "pages" ELSE "threw"]
  /\ UNCHANGED << argVars, runVars, zin, zfirst, store, template >>

\* A call's pages are done and the document is saved, or a step rejects.
K_End ==
  /\ zin.resolver = "getTesseractWorker"
  /\ \E k \in 1..Len(zout.calls) :
       /\ zout.calls[k].at = "pages"
       /\ \E next \in {"returned", "threw"} : zout' = [zout EXCEPT !.calls[k].at = next]
  /\ UNCHANGED << argVars, runVars, zin, zfirst, store, template >>

WorkerNext == K_Call \/ K_Load \/ K_GetWorker \/ K_Settle \/ K_Await \/ K_End

SpecWorker == InitWorker /\ [][WorkerNext]_vars

\* ============================================================== properties
\* The characters of a text layer, and of all text layers of the output.
LayerChars(text) == SumSeq([j \in 1..Len(text) |-> Len(text[j])])
RecognizedChars == SumSeq([k \in 1..Len(outPages) |-> LayerChars(outPages[k].text)])

GateError == "OCR completed but produced 0 extractable characters"

\* The step of the gate, with OCR requested.
GateStep ==
  fn \in BurnFns /\ BurnCfg.includeOcr /\ pc = "gate" =>
    IF RecognizedChars = 0
    THEN result' = "threw" /\ error' = GateError
    ELSE result' = "returned" /\ error' = ""

\* C1 -- searchability gate.  When redactPdfBytes or redactPdfBytesWithText runs
\* with includeOcr true, the test is made after the last page on the sum of the
\* trimmed recognized characters of all pages: a sum of zero ends the run with
\* the searchability error and no bytes, a positive sum never does.
C1_SearchabilityGate ==
  /\ [](fn \in BurnFns /\ BurnCfg.includeOcr =>
          /\ error = GateError =>
               result = "threw" /\ RecognizedChars = 0 /\ Len(ocrLog) = Len(doc)
          /\ result = "returned" =>
               RecognizedChars > 0 /\ Len(ocrLog) = Len(doc))
  /\ [][GateStep]_vars

\* The gate has fired on a document of two pages, none of which gave any text.
C1_Witness ==
  /\ fn \in BurnFns /\ error = GateError /\ Len(doc) = 2
  /\ Len(ocrLog) = 2 /\ Len(outPages) = 2

\* The zones of the page a recognize call was made for, on that call's raster,
\* resolved again from the page and the call's arguments.
ZonesOfCall(c) ==
  IF fn \in BurnFns
  THEN computeRedactionRects(mode, c.page - 1, c.raster.w, c.raster.h,
                             getSize(doc[c.page]), BurnCfg)
  ELSE IF fn = SecureFn
  THEN ViewerRects(c.raster.w, c.raster.h, mode, SecureCfg.renderScaleQ,
                   SecureCfg.surgeryTopCmTenths)
  ELSE LET vp == Viewport(doc[c.page]) IN
       rectsToCanvas(getRedactionRects(mode, c.page - 1, vp.width * Twips, vp.height * Twips),
                     vp.width * Twips, vp.height * Twips, RasterScaleQ)

AllCovered(raster, zones) == \A j \in 1..Len(zones) : Covered(raster, zones[j])

\* C2 -- every recognize call of every run was made on the raster of its page
\* with every zone of that page already black on it.
C2_OcrAfterPaint ==
  \A k \in 1..Len(ocrLog) :
    /\ ocrLog[k].raster.page = ocrLog[k].page
    /\ AllCovered(ocrLog[k].raster, ZonesOfCall(ocrLog[k]))

\* buildRasterOcrPdf has recognized two pages, the second one with painted zones.
C2_Witness ==
  /\ fn = RasterFn /\ Len(ocrLog) = 2
  /\ ocrLog[2].raster.fills # {}
  /\ ZonesOfCall(ocrLog[2]) # <<>>

\* C3 -- burn-in output.  Output page k of redactPdfBytes and
\* redactPdfBytesWithText holds the raster of page k with every zone painted,
\* the size of page k, and text only if it was recognized from that raster.
C3_OutputFromPaintedRaster ==
  fn \in BurnFns =>
    \A k \in 1..Len(outPages) :
      LET p == outPages[k] IN
      /\ DOMAIN p = {"image", "size", "text"}
      /\ p.image.page = k
      /\ AllCovered(p.image, computeRedactionRects(mode, k - 1, p.image.w, p.image.h,
                                                   getSize(doc[k]), BurnCfg))
      /\ p.size = getSize(doc[k])
      /\ p.text # <<>> =>
           \E j \in 1..Len(ocrLog) : ocrLog[j].page = k /\ ocrLog[j].raster = p.image

\* redactPdfBytes has written two pages, both painted, the first with a text layer.
C3_Witness ==
  /\ fn = "redactPdfBytes" /\ Len(outPages) = 2
  /\ outPages[1].text # <<>>
  /\ outPages[1].image.fills # {} /\ outPages[2].image.fills # {}

\* The page headers of a text, in the order they appear in it.
HeadersIn(text) == SelectSeq(text, LAMBDA c : c \in PageHdrs)

\* C4 -- page count and order.  A returned burn-in document has one page per
\* input page, page k rendered from input page k; the text redactPdfBytesWithText
\* returns holds the segments of pages 1..N in that order (none with OCR off).
C4_PagesInOrder ==
  fn \in BurnFns /\ result = "returned" =>
    /\ Len(outPages) = Len(doc)
    /\ \A k \in 1..Len(doc) :
         /\ outPages[k].image.page = k
         /\ outPages[k].image.w = (Viewport(doc[k]).width * BurnScaleQ) \div ScaleDen
         /\ outPages[k].image.h = (Viewport(doc[k]).height * BurnScaleQ) \div ScaleDen
    /\ fn = "redactPdfBytesWithText" =>
         HeadersIn(gptText) = IF BurnCfg.includeOcr
                              THEN [k \in 1..Len(doc) |-> PageHdr(k)]
                              ELSE <<>>

\* redactPdfBytesWithText has returned the text of a document of two pages of
\* different orientation.
C4_Witness ==
  /\ fn = "redactPdfBytesWithText" /\ result = "returned"
  /\ Len(doc) = 2 /\ Viewport(doc[1]) # Viewport(doc[2])
  /\ HeadersIn(gptText) = <<PageHdr(1), PageHdr(2)>>

\* C5 -- a document returned by redactPdfBytesSecureOcr called without
\* onlyFirstPage has as many pages as the input, in the input's order.
C5_SecureDefaultPageCount ==
  fn = SecureFn /\ opts.onlyFirstPage = "unset" /\ result = "returned" =>
    /\ Len(outPages) = Len(doc)
    /\ \A k \in 1..Len(outPages) : outPages[k].image.page = k

\* C6 -- containment.  Every zone a resolver returns for a page (or raster) of
\* positive width W and height H lies inside it.
C6_Containment ==
  zout.done => \A k \in 1..Len(zout.rects) : Contained(zout.rects[k], zin.W, zin.H)

\* C7 -- the SURGERY_CENTER band redactPdfBytes paints starts at the top edge of
\* the rendered page, spans its width and is surgeryTopCm centimetres high at
\* the render scale, to within a pixel, whatever the page's rotation.
C7_TopBandHeight ==
  fn = "redactPdfBytes" /\ mode = SURGERY_CENTER /\ pc = "embed" /\ rects # <<>> =>
    /\ rects[1].x = 0 /\ rects[1].y = 0 /\ rects[1].w = canvas.w
    /\ Abs(rects[1].h * CmPerInch100 * ScaleDen
             - BurnCfg.surgeryTopCm * PtPerInch100 * BurnCfg.renderScaleQ)
         <= CmPerInch100 * ScaleDen

RecognitionErrors == {"OCR failed on page", "recognize rejected"}

\* C8 -- a recognition failure on a page does not end a run of redactPdfBytes,
\* redactPdfBytesWithText or buildRasterOcrPdf with an exception.
C8_RecognitionFailureContinues ==
  fn \in BurnFns \cup {RasterFn} => ~(result = "threw" /\ error \in RecognitionErrors)

\* C9 -- when a run of redactPdfBytes, redactPdfBytesWithText or
\* buildRasterOcrPdf has ended, by returning or by throwing, every OCR worker it
\* created has been terminated.
C9_WorkersTerminated ==
  fn \in BurnFns \cup {RasterFn} /\ pc \in {"done", "threw"} =>
    workersTerminated = workersCreated

\* The offset of the first %PDF- marker of b, or -1.
FirstMarker(b) ==
  IF \E n \in 0..Len(b) : MatchAt(b, needle, n)
  THEN CHOOSE n \in 0..Len(b) :
         MatchAt(b, needle, n) /\ \A m \in 0..(n - 1) : ~MatchAt(b, needle, m)
  ELSE -1

\* An input redactPdfBytes must refuse.
InvalidInput(a) ==
  \/ ~a.given
  \/ Len(a.bytes) < 5
  \/ \E m \in HtmlMarkers : \E n \in 0..(64 - Len(m)) : MatchAt(toLowerCase(a.bytes), m, n)
  \/ FirstMarker(a.bytes) = -1
  \/ LET at == FirstMarker(a.bytes) IN
     ~(/\ at + 8 <= Len(a.bytes)
       /\ a.bytes[at + 6] \in Digits
       /\ a.bytes[at + 7] = "."
       /\ a.bytes[at + 8] \in Digits)

\* The first step of redactPdfBytes.
ValidateStep ==
  fn = "redactPdfBytes" /\ pc = "start" =>
    IF InvalidInput(inputBytes)
    THEN /\ pc' = "threw" /\ result' = "threw"
         /\ loadCalls' = <<>> /\ renders' = 0
         /\ workersCreated' = 0 /\ ~outCreated'
    ELSE /\ pc' = "load" /\ result' = "none"
         /\ inputBytes' = Bytes(Slice(inputBytes.bytes, FirstMarker(inputBytes.bytes),
                                      Len(inputBytes.bytes)))

\* C10 -- redactPdfBytes validates first.  Its first step throws on an input
\* that is missing, shorter than 5, HTML in its first 64 bytes, without a %PDF-
\* marker, or with a first marker not followed by digit '.' digit, and then no
\* document was opened, no page rendered, no worker and no output document
\* created; on any other input it goes on with the bytes from the first marker,
\* and those are the bytes every later step opens.
C10_ValidateFirst ==
  /\ [][ValidateStep]_vars
  /\ [](fn = "redactPdfBytes" =>
          \A k \in 1..Len(loadCalls) :
            loadCalls[k] = inputBytes.bytes /\ MatchAt(loadCalls[k], needle, 0))

\* redactPdfBytes has refused an input whose first marker carries no version.
C10_Witness ==
  /\ fn = "redactPdfBytes" /\ pc = "threw" /\ error = "not a valid PDF header"
  /\ FirstMarker(inputBytes.bytes) > 0
  /\ loadCalls = <<>> /\ renders = 0 /\ workersCreated = 0 /\ ~outCreated

\* C11 -- computeRedactionRects called for a raster whose width or height is
\* not positive returns no zone list.
C11_DegenerateReturnsNoZones ==
  zin.resolver = "computeRedactionRects" /\ Degenerate(zin) => ~zout.done

\* C12 -- when OCR is requested and neither language file is reachable,
\* redactPdfBytes never renders a page, never creates a worker and never creates
\* the output document: the run stops with an error at the asset check at the
\* latest, and never returns.
C12_AssetsCheckedFirst ==
  fn = "redactPdfBytes" /\ BurnCfg.includeOcr /\ env.assets = "missing" =>
    /\ renders = 0 /\ workersCreated = 0 /\ worker = "null" /\ ~outCreated
    /\ outPages = <<>> /\ result # "returned"
    /\ pc \in {"start", "load", "retry", "sizes", "assets", "threw"}

C12_Witness ==
  /\ fn = "redactPdfBytes" /\ BurnCfg.includeOcr /\ env.assets = "missing"
  /\ pc = "threw" /\ error = AssetsError /\ pageSizes # <<>>

\* C13 -- every output page of redactPdfBytes has the width and height in
\* points of the input page with the same number, and not the pixel dimensions
\* of the raster.
C13_OutputPageSize ==
  fn = "redactPdfBytes" =>
    \A k \in 1..Len(outPages) : outPages[k].size = getSize(doc[k])

\* px is N/100 inches at scale sc rounded to the nearest pixel.
IsRoundedInches(px, inches, sc) ==
  2 * Abs(px * InchDen * sc.den - inches * PtPerInch * sc.num) <= InchDen * sc.den

\* C14 -- in redactPdfArrayBuffer the top band of page 1 has the first-page
\* measurement and that of every later page the other-pages measurement; a
\* bands_inches template adds on every page a bottom band of bottomAllPages
\* inches, and a top_band_inches template adds none.  The top band starts at
\* row 0, the bottom band ends at the last row, both span the full width, a
\* band of N inches is round(N * 72 * scale) pixels high, and the raster is
\* black where the bands lie on it.
C14_BandLookup ==
  fn = BandsFn /\ pc = "a_embed" /\ template.mode \in {"top_band_inches", "bands_inches"} =>
    LET sc == BandScale(doc[i + 1])
        top == rects[1]
        topInches == IF i + 1 = 1 THEN template.firstPage ELSE template.otherPages
    IN /\ Len(rects) = IF template.mode = "bands_inches" THEN 2 ELSE 1
       /\ top.x = 0 /\ top.y = 0 /\ top.w = canvas.w
       /\ IsRoundedInches(top.h, topInches, sc)
       /\ Covered(canvas, top)
       /\ template.mode = "bands_inches" =>
            LET bottom == rects[2] IN
            /\ bottom.x = 0 /\ bottom.w = canvas.w
            /\ IsRoundedInches(bottom.h, template.bottomAllPages, sc)
            /\ bottom.y = Max(0, canvas.h - bottom.h)
            /\ Min(bottom.y + bottom.h, canvas.h) = canvas.h
            /\ Covered(canvas, bottom)

C14_Witness ==
  /\ fn = BandsFn /\ pc = "a_embed" /\ template.mode = "bands_inches" /\ i = 1
  /\ template.firstPage # template.otherPages
  /\ rects[1].h > 0 /\ rects[2].h > 0 /\ rects[2].y > rects[1].h
  /\ store[mode].set

\* The zones of page k of buildRasterOcrPdf on its raster.
RasterZones(k) ==
  LET vp == Viewport(doc[k]) IN
  rectsToCanvas(getRedactionRects(mode, k - 1, vp.width * Twips, vp.height * Twips),
                vp.width * Twips, vp.height * Twips, RasterScaleQ)

\* A run of buildRasterOcrPdf whose OCR engine could not be initialized carries
\* the warning, recognizes nothing, fails only for a page that cannot be
\* rendered or embedded, and returns every page redacted.
OcrInitFailureTolerated ==
  fn = RasterFn /\ ~ocrEnabled =>
    /\ \E j \in 1..Len(warnings) : warnings[j] = WarnOcrInit
    /\ ocrLog = <<>>
    /\ result = "threw" => error \in {"getPage/render rejected", "embedPng rejected"}
    /\ result = "returned" =>
         /\ Len(outPages) = Len(doc)
         /\ \A k \in 1..Len(outPages) :
              /\ outPages[k].image.page = k
              /\ AllCovered(outPages[k].image, RasterZones(k))

\* The step that tries to get the worker does not end the run.
OcrInitStep ==
  fn = RasterFn /\ pc = "r_worker" => pc' = "r_page" /\ result' = "none"

\* C15 -- if the OCR engine cannot be initialized, buildRasterOcrPdf does not
\* throw for it: it goes on to the pages, and the PDF it returns holds every
\* input page with its zones painted, with the warning that the output is not
\* searchable in the warnings list.
C15_OcrInitFailureReturnsPdf ==
  []OcrInitFailureTolerated /\ [][OcrInitStep]_vars

C15_Witness ==
  /\ fn = RasterFn /\ ~ocrEnabled /\ result = "returned"
  /\ Len(doc) = 2 /\ Len(outPages) = 2
  /\ outPages[2].image.fills # {}
  /\ warnings = << WarnOcrInit >>

\* The extent of a text item and a rectangle share area.
Overlaps(item, r) ==
  /\ item.x < r.x + r.w /\ r.x < item.x + item.w
  /\ item.y < r.y + r.h /\ r.y < item.y + item.h

\* The strings between the header of page k and the next header.
AllHdrs == PageHdrs \cup { NoTextHdr(k) : k \in 1..4 }
RECURSIVE UpToHdr(_)
UpToHdr(s) ==
  IF s = <<>> \/ Head(s) \in AllHdrs THEN <<>> ELSE << Head(s) >> \o UpToHdr(Tail(s))
RECURSIVE PageText(_, _)
PageText(s, k) ==
  IF s = <<>> THEN <<>>
  ELSE IF Head(s) = PageHdr(k) THEN UpToHdr(Tail(s))
  ELSE PageText(Tail(s), k)

\* C16 -- in buildSearchablePdfFromText a text item whose extent overlaps a
\* redaction rectangle of its page is neither drawn on the rebuilt page nor
\* part of the returned gptText.
C16_OverlappingItemsDropped ==
  fn = RebuildFn /\ result = "returned" =>
    \A k \in 1..Len(doc) :
      \A n \in 1..Len(doc[k].items) :
        LET item == doc[k].items[n] IN
        (item.str # "" /\ \E j \in 1..Len(outPages[k].boxes) : Overlaps(item, outPages[k].boxes[j]))
          => /\ \A t \in 1..Len(outPages[k].text) : outPages[k].text[t].str # item.str
             /\ \A t \in 1..Len(PageText(gptText, k)) : PageText(gptText, k)[t] # item.str

\* C17 -- a zone resolution invoked again for the same mode or template key,
\* page index and page size yields the zone list it yielded the first time,
\* whatever was done in between.
C17_NoHiddenState ==
  zfirst.done /\ zout.done => zout.rects = zfirst.rects

\* One worker per run of redactPdfBytes with OCR, ready before the first page;
\* none without OCR.
OneWorker ==
  fn = "redactPdfBytes" =>
    /\ workersCreated <= 1
    /\ pc \in {"start", "load", "retry", "sizes", "assets", "createWorker", "initWorker"} =>
         renders = 0 /\ outPages = <<>> /\ ocrLog = <<>>
    /\ BurnCfg.includeOcr /\ (renders > 0 \/ outCreated) =>
         workersCreated = 1 /\ worker = "worker"
    /\ ocrLog # <<>> => BurnCfg.includeOcr /\ workersCreated = 1 /\ worker = "worker"
    /\ ~BurnCfg.includeOcr => workersCreated = 0 /\ worker = "null" /\ ocrLog = <<>>

\* The worker a run holds is the one it holds to the end.
WorkerKept ==
  fn = "redactPdfBytes" /\ worker # "null" => worker' = worker /\ workersCreated' = workersCreated

\* C18 -- a run of redactPdfBytes with OCR enabled creates one worker, creates
\* and initializes it before the first page is processed, and recognizes every
\* page with it; with OCR disabled it creates no worker and never recognizes.
C18_OneWorkerPerRun ==
  []OneWorker /\ [][WorkerKept]_vars

C18_Witness ==
  /\ fn = "redactPdfBytes" /\ BurnCfg.includeOcr
  /\ Len(ocrLog) = 2 /\ ocrLog[1].page = 1 /\ ocrLog[2].page = 2
  /\ workersCreated = 1 /\ worker = "worker"

RECURSIVE Concat(_)
\* The runs one after the other.
Concat(runs) == IF runs = <<>> THEN <<>> ELSE Head(runs) \o Concat(Tail(runs))

\* Every run holds 1..n characters and there are no more runs than
\* ceil(length / n); a text without characters gives no run.
RunsBounded ==
  /\ \A k \in 1..Len(zout.rects) : Len(zout.rects[k]) >= 1 /\ Len(zout.rects[k]) <= zin.n
  /\ Len(zout.rects) <= Ceil(Len(zin.text), zin.n)
  /\ zin.text = <<>> => zout.rects = <<>>

\* C20 as stated -- the writers of the invisible layer split the text into runs
\* of at most 6000 (addInvisibleTextLayer) and 3500 (redactPdfBytesSecureOcr)
\* characters whose concatenation in order is the whole text; the loop ends,
\* and an empty text gives no run.
C20_RunsAreTheText ==
  zin.resolver \in {"addInvisibleTextLayer", "redactPdfBytesSecureOcr"} /\ zout.done =>
    /\ RunsBounded
    /\ Concat(zout.rects) = zin.text

\* C20 amended -- as above, except that redactPdfBytesSecureOcr writes no run
\* at all for a text that holds only whitespace.
C20_RunsAreTheTextUnlessBlank ==
  zin.resolver \in {"addInvisibleTextLayer", "redactPdfBytesSecureOcr"} /\ zout.done =>
    /\ RunsBounded
    /\ IF zin.resolver = "redactPdfBytesSecureOcr" /\ trim(zin.text) = <<>>
       THEN zout.rects = <<>>
       ELSE Concat(zout.rects) = zin.text

\* A text of more than two runs was written, the last run shorter than the rest.
C20_Witness ==
  /\ zin.resolver = "redactPdfBytesSecureOcr" /\ zout.done
  /\ Len(zout.rects) = 3
  /\ Len(zout.rects[1]) = SecureChunk /\ Len(zout.rects[3]) < SecureChunk

\* applyAllPages as the call fixes it: the passed value, else true in NO_CHARGE
\* mode and false in SURGERY_CENTER mode.
EffectiveApplyAllPages ==
  IF opts.applyAllPages = "true" THEN TRUE
  ELSE IF opts.applyAllPages = "false" THEN FALSE
  ELSE mode = NO_CHARGE

\* C21 -- with applyAllPages false redactPdfBytes paints the zones of the mode
\* on page 1 and nothing on every later page, which it still emits; with
\* applyAllPages true it paints the zones on every page.  applyAllPages is the
\* passed value, and without one true in NO_CHARGE and false in SURGERY_CENTER.
C21_FirstPageOnly ==
  fn = "redactPdfBytes" =>
    /\ BurnCfg.applyAllPages = EffectiveApplyAllPages
    /\ pc = "embed" =>
         LET normal == computeRedactionRects(mode, i, canvas.w, canvas.h, getSize(doc[i + 1]),
                                             [BurnCfg EXCEPT !.applyAllPages = TRUE])
         IN /\ normal # <<>>
            /\ IF EffectiveApplyAllPages \/ i = 0
               THEN rects = normal /\ canvas.fills # {}
               ELSE rects = <<>> /\ canvas.fills = {}
    /\ \A k \in 2..Len(outPages) :
         ~EffectiveApplyAllPages => outPages[k].image.page = k /\ outPages[k].image.fills = {}

C21_Witness ==
  /\ fn = "redactPdfBytes" /\ mode = SURGERY_CENTER /\ opts.applyAllPages = "unset"
  /\ result = "returned" /\ Len(outPages) = 2
  /\ outPages[1].image.fills # {} /\ outPages[2].image.fills = {}

\* C22: normalizePdfBytes is idempotent: whenever it accepted an input, applying it
\* again to its own output (the retry path of redactPdfBytes, redactPdfBytesWithText
\* after convertAnyToArtifacts) succeeds and returns the same bytes.
C22_NormalizeIdempotent ==
  (zin.resolver = "normalizePdfBytes" /\ zout.done) =>
    /\ zout.rects.ok
    /\ zout.rects.out = zfirst.rects.out

\* A run of convertAnyToArtifacts that returned a document (pdfBytes not null).
ConvertReturnedPdf ==
  /\ zin.resolver = ConvertFn
  /\ result = "returned"
  /\ outCreated

\* C23: on every path of convertAnyToArtifacts (PDF, embedded PDF, PNG/JPEG
\* image), when OCR is enabled and a non-null pdfBytes is returned, the returned
\* gptText is not empty.
C23_NoSilentUnsearchablePdf ==
  (ConvertReturnedPdf /\ Opt(opts.includeOcr, TRUE)) => gptText # <<>>

\* The files of a batch whose processing failed: it threw, or it was recorded as
\* a failure because no exportable artifact was produced.
FailedFiles ==
  { k \in 1..Len(zin.files) : zin.files[k].threw
                                \/ (~zin.files[k].pdfBytes /\ ~zin.files[k].gptText) }

RecordedFailures ==
  IF zin.impl = "app.js"
  THEN { zout.report[j][2] : j \in { j \in 1..Len(zout.report) : zout.report[j][1] = "FAIL" } }
  ELSE { zout.failures[j] : j \in 1..Len(zout.failures) }

\* C24: in batch export every selected file is processed exactly once in list
\* order; a failure is recorded against its file and later files are still
\* processed; the ZIP holds artifacts only of files that succeeded; and when
\* every file fails no ZIP is downloaded.
C24_BatchExport ==
  (zin.resolver = "exportBatchZip" /\ zout.at = "done" /\ Len(zin.files) > 0) =>
    /\ zout.processed = [k \in 1..Len(zin.files) |-> k]
    /\ RecordedFailures = FailedFiles
    /\ \A e \in zout.zip : e.file # 0 => e.file \notin FailedFiles
    /\ FailedFiles = 1..Len(zin.files) => ~zout.downloaded

\* The exports in progress: started and not yet through their finally block.
InProgress == { k \in 1..Len(zout.exports) : zout.exports[k].at # "ended" }

\* C25: in App at most one export (single or batch) is in progress at any time;
\* an export starts only while busy is false, busy is true throughout it, and
\* busy is false again once it has ended, by success or by a throw.
C25_OneExportAtATime ==
  zin.resolver = "App" =>
    /\ Cardinality(InProgress) <= 1
    /\ \A k \in 1..Len(zout.exports) : ~zout.exports[k].busyAtStart
    /\ zout.busy <=> InProgress # {}

C25_Witness ==
  /\ zin.resolver = "App"
  /\ Len(zout.exports) = 2
  /\ zout.exports[1].at = "ended" /\ zout.exports[2].at = "convert"
  /\ zout.status = "Export error"
  /\ zout.busy

\* No preview run is in flight.
PreviewSettled ==
  \A k \in 1..Len(zout.runs) : zout.runs[k].at = "settled"

\* The latest run was started for the current inputs and drew its zones.
LatestRunDrew ==
  /\ zout.runs # <<>>
  /\ zout.sourceBytes # NoSource
  /\ ~zout.runs[Len(zout.runs)].cancelled
  /\ zout.status # "Preview error"

\* C26: when the preview inputs change while an earlier run is still rendering,
\* then once all runs have settled the canvas shows page 1 of the latest source
\* with exactly the zones of the latest inputs; a superseded run never draws
\* after the newer run has drawn.
C26_PreviewShowsLatest ==
  (zin.resolver = "App preview" /\ PreviewSettled /\ LatestRunDrew) =>
    /\ zout.canvas.page = zout.sourceBytes
    /\ zout.canvas.fills =
         LET rs == PreviewRects(zout.sourceBytes, zout.mode, zout.applyAllPages)
         IN { rs[j] : j \in 1..Len(rs) }

\* C27: after any sequence of picks, mode and option changes and Clear, once no
\* preview run is in flight previewBusy is false.
C27_PreviewBusyEnds ==
  (zin.resolver = "App preview" /\ PreviewSettled) => ~zout.previewBusy

\* C28: in TemplateTuner a cancelled preview run makes no further update to the
\* panes or to status, error and hasPage2, whether its rendering succeeds or
\* fails; and of a burst of changes less than 250 ms apart (each before the
\* previous timer fired) only the last starts a render.
C28_CancelledRunIsSilent ==
  zin.resolver = "TemplateTuner" =>
    \A k \in 1..Len(zout.runs) :
      /\ ~zout.runs[k].late
      /\ (k < Len(zout.runs) /\ zout.runs[k].at = "timer") => zout.runs[k].cancelled

\* C29: the OCR worker of secureExport is memoized for the module's lifetime:
\* across sequential and concurrent calls of redactPdfBytesSecureOcr its creation
\* is started at most once, and every caller sees the same outcome of it.
C29_WorkerMemoized ==
  zin.resolver = "getTesseractWorker" =>
    /\ Len(zout.promises) <= 1
    /\ \A k \in 1..Len(zout.calls) :
         /\ zout.calls[k].awaits \in {0, 1}
         /\ zout.calls[k].saw # "none" => zout.calls[k].saw = zout.promises[1]

C29_Witness ==
  /\ zin.resolver = "getTesseractWorker"
  /\ Len(zout.calls) = 3
  /\ zout.calls[1].at = "returned" /\ zout.calls[1].saw = "fulfilled"
  /\ zout.calls[2].at = "pages" /\ zout.calls[2].saw = "fulfilled"
  /\ zout.calls[3].at = "worker"
  /\ Len(zout.promises) = 1

\* C30: for every page rotation (0, 90, 180, 270) the output page of
\* redactPdfBytes has the orientation and the aspect ratio of the redacted raster
\* drawn on it, up to the rounding of the raster to whole pixels, so the image
\* is never stretched.
C30_OutputKeepsAspect ==
  fn = "redactPdfBytes" =>
    \A k \in 1..Len(outPages) :
      LET size == outPages[k].size
          image == outPages[k].image
          skew == size.width * image.h - size.height * image.w
      IN /\ (size.width > size.height) = (image.w > image.h)
         /\ skew <= size.width + size.height
         /\ 0 - skew <= size.width + size.height

==========================================================================
